---------------------------- MODULE Spec2Model ----------------------------
(***************************************************************************)
(* Verification model of covmatic-covidseq: the shared reservoir allocator *)
(* (ReagentPlateHelper), the transfer execution engine (TransferManager)   *)
(* driven by ReagentStation, and the LibraryStation distribution loops.    *)
(*                                                                         *)
(* Volumes are exact rationals in the model: a volume is stored as an      *)
(* integer number of 1/VolScale ul, with VolScale the least common         *)
(* multiple of every divisor the allocator can divide by, so that Python's *)
(* true division is modelled without rounding.                             *)
(***************************************************************************)
EXTENDS Integers, Sequences, FiniteSets, TLC

VARIABLES
    \* ---- ReagentPlateHelper (reagent_helper.py)
    samples_per_row,      \* self._samples_per_row
    num_rows,             \* self._num_rows
    assigned_columns,     \* self._assigned_columns
    rp_last,              \* outcome of the last assign_reagent call
    rq_last,              \* the last allocator query and its outcome
    \* ---- pipettes, tubes and the TransferManager (transfer_manager.py)
    pip,                  \* per pipette: current_volume, has_tip
    tubes,                \* tracked volume of every WellWithVolume
    tm,                   \* the TransferManager's fields
    xfer,                 \* arguments and locals of the running transfer / mix call
    hist,                 \* history of the running transfer call
    pc,                   \* position of the station's script
    ret,                  \* where the running transfer / mix call returns to
    \* ---- ReagentStation (stations/reagent.py)
    run_stage,            \* self._run_stage: FALSE while stages are skipped
    batch,                \* locals of fill_wells / fill_shared_plate / prepare
    skip_ledger,          \* source volume of the same batch with every destination skipped
    \* ---- LibraryStation (stations/library.py)
    lib,                  \* locals of distribute_clean / distribute_dirty and their pipette
    mts,                  \* tracked volume of the recipe's MultiTubeSource
    mts_skip,             \* the same volume had every destination been skipped
    \* ---- PipetteChooser (pipette_chooser.py)
    pipettes,             \* self._pipettes, each entry with the number of its register call
    register_calls,       \* number of register calls made
    now,                  \* the value time.monotonic() returns
    chooser_last,         \* the last register / get_pipette call and its outcome
    \* ---- Recipe (recipe.py)
    recipe,               \* the fields of one Recipe object
    recipe_hist,          \* history: every step volume ever added, volume_final ever assigned
    recipe_last,          \* the last operation on the recipe and its outcome
    \* ---- LibraryStation plate handling and shaking (stations/library.py)
    plate_slot,           \* _current_slot of the reagent and the sample PlateManager
    decks,                \* heater-shaker latch and shaker, thermocycler lid
    hs_timer,             \* self._hs_start_time, self._hs_requested_seconds
    skip_mix,             \* self._skip_mix
    shake_hist,           \* what the shake calls did since construction
    proto_last,           \* the last plate / shake call and its outcome
    \* ---- VerticalMapper (vertical_mapper.py)
    vm,                   \* the shape of self._columns
    vm_last,              \* the last get_map_for_samples call and its outcome
    \* ---- LibraryStation.body (station.py, stations/library.py)
    body_pc               \* the call of the body that runs next

allocVars == <<samples_per_row, num_rows, assigned_columns, rp_last, rq_last>>

engineVars == <<pip, tubes, tm, xfer, hist, pc, ret>>

stationVars == <<run_stage, batch, skip_ledger>>

libVars == <<lib, mts, mts_skip>>

chooserVars == <<pipettes, register_calls, now, chooser_last>>

recipeVars == <<recipe, recipe_hist, recipe_last>>

plateVars == <<plate_slot, decks, hs_timer, skip_mix, shake_hist, proto_last>>

mapperVars == <<vm, vm_last>>

bodyVars == <<body_pc>>

vars == <<samples_per_row, num_rows, assigned_columns, rp_last, rq_last,
          pip, tubes, tm, xfer, hist, pc, ret, run_stage, batch, skip_ledger,
          lib, mts, mts_skip,
          pipettes, register_calls, now, chooser_last,
          recipe, recipe_hist, recipe_last,
          plate_slot, decks, hs_timer, skip_mix, shake_hist, proto_last,
          vm, vm_last, body_pc>>

----------------------------------------------------------------------------
(* Generic helpers *)

Min(a, b) == IF a <= b THEN a ELSE b

Max(a, b) == IF a >= b THEN a ELSE b

\* math.ceil(a / b) for a >= 0, b > 0
Ceil(a, b) == (a + b - 1) \div b

RECURSIVE SeqSum(_)
SeqSum(s) == IF s = <<>> THEN 0 ELSE Head(s) + SeqSum(Tail(s))

RECURSIVE SeqMax(_)
SeqMax(s) == IF Len(s) = 1 THEN s[1] ELSE Max(Head(s), SeqMax(Tail(s)))

RECURSIVE Flatten(_)
Flatten(ss) == IF ss = <<>> THEN <<>> ELSE Head(ss) \o Flatten(Tail(ss))

RECURSIVE Gcd(_, _)
Gcd(a, b) == IF b = 0 THEN a ELSE Gcd(b, a % b)

RECURSIVE LcmUpTo(_)
LcmUpTo(n) == IF n <= 1 THEN 1
              ELSE LET l == LcmUpTo(n - 1) IN (l * n) \div Gcd(l, n)

----------------------------------------------------------------------------
(* Bounds and program constants of the allocator *)

\* len(samples_per_row) accepted by the constructor
SamplesLen == 8

\* default well_volume_limit, in ul
WellVolumeLimit == 100

\* number of columns of the modelled container (num_cols)
NumCols == 4

\* largest number of samples loaded on the plate
MaxSamples == 10

\* number of distinct reagent names
MaxReagents == 2

VolScale == LcmUpTo(NumCols)

Reagents == 1..MaxReagents

\* (volume_with_overhead_per_sample, volume_available_per_sample) in ul;
\* an available volume of 0 stands for the omitted argument (None)
VolumeInputs == { <<10, 0>>, <<120, 100>>, <<250, 0>> }

\* n samples laid out column by column on an 8-row plate
ColumnWise(n) == [r \in 1..SamplesLen |-> (n + SamplesLen - r) \div SamplesLen]

Reversed(s) == [i \in 1..Len(s) |-> s[Len(s) + 1 - i]]

SamplesVectors == UNION { {ColumnWise(n), Reversed(ColumnWise(n))} : n \in 1..MaxSamples }

----------------------------------------------------------------------------
(* ReagentPlateHelper *)

\* no name is seen as assigned
assigned_reagents_mutant(ac) == <<>>

\* _assigned_reagents
assigned_reagents(ac) == [i \in 1..Len(ac) |-> ac[i].name]

\* the column count summed by _next_free_column_index
next_free_column_mutant(ac) == Len(ac)
next_free_column(ac) == SeqSum([i \in 1..Len(ac) |-> Len(ac[i].columns)])

\* check_column_index: TRUE when the index is rejected
column_index_rejected(index) == index >= NumCols

\* total_volumes, scaled
total_volumes(spr, nrows, vol) ==
    IF nrows = 1 THEN << vol * SeqSum(spr) * VolScale >>
    ELSE [i \in 1..Len(spr) |-> spr[i] * vol * VolScale]

wells_needed_mutant(t) == Max(1, t \div (WellVolumeLimit * VolScale))
wells_needed(t) == Ceil(t, WellVolumeLimit * VolScale)

num_columns(totals) == SeqMax([i \in 1..Len(totals) |-> wells_needed(totals[i])])

\* every well filled up to the limit
base_volume_mutant(totals) == WellVolumeLimit * VolScale

base_volume(totals) == SeqMax(totals) \div num_columns(totals)

RECURSIVE row_fill_mutant(_, _, _)
row_fill_mutant(v, base, n) ==
    IF n = 0 THEN <<>>
    ELSE << Min(base, v) >> \o row_fill_mutant(v, base, n - 1)

\* the inner loop of assign_reagent: one row's wells, left to right
RECURSIVE row_fill(_, _, _)
row_fill(v, base, n) ==
    IF n = 0 THEN <<>>
    ELSE LET dispensed_volume == Min(base, v)
         IN  << dispensed_volume >> \o row_fill(v - dispensed_volume, base, n - 1)

rows_of(totals) ==
    [i \in 1..Len(totals) |-> row_fill(totals[i], base_volume(totals), num_columns(totals))]

\* zip(*rows): one tuple of row volumes per column
volumes_in_columns(rows, ncols) ==
    [j \in 1..ncols |-> [i \in 1..Len(rows) |-> rows[i][j]]]

Positive(v) == v > 0

\* the scaling left out
available_volume_mutant(v, av, vol) == v

\* v * volume_fraction, volume_fraction = av / vol
available_volume(v, av, vol) == (v * av) \div vol

\* the record appended to _assigned_columns
assignment(name, vol, avail, spr, nrows, free) ==
    LET totals   == total_volumes(spr, nrows, vol)
        ncols    == num_columns(totals)
        rows     == rows_of(totals)
        vic      == volumes_in_columns(rows, ncols)
        volumes  == Flatten(vic)
        first    == [j \in 1..ncols |-> vic[j][1]]
        disp     == SelectSeq(volumes, Positive)
        av       == IF avail = 0 THEN vol ELSE avail
    IN  [ name              |-> name,
          columns           |-> [j \in 1..ncols |-> free + j - 1],
          colvols           |-> vic,
          volumes           |-> disp,
          available_volumes |-> [k \in 1..Len(disp) |-> available_volume(disp[k], av, vol)],
          mts_8_channel     |-> [j \in 1..ncols |-> available_volume(first[j], av, vol)] ]

\* the new record takes the place of the recorded ones
append_assignment_mutant(ac, a) == << a >>

\* self._assigned_columns.append(...)
append_assignment(ac, a) == Append(ac, a)

\* assign_reagent(reagent_name, volume_with_overhead_per_sample, volume_available_per_sample)
assign_reagent(name, vol, avail) ==
    LET names  == assigned_reagents(assigned_columns)
        totals == total_volumes(samples_per_row, num_rows, vol)
        ncols  == num_columns(totals)
        free   == next_free_column(assigned_columns)
        call   == [name |-> name, vol |-> vol, avail |-> avail, free |-> free, ncols |-> ncols]
    IN  IF \E i \in 1..Len(names) : names[i] = name
        THEN /\ rp_last' = [call EXCEPT !.free = 0, !.ncols = 0] @@ [result |-> "DuplicateReagent"]
             /\ UNCHANGED assigned_columns
        ELSE IF \/ column_index_rejected(free)
                \/ column_index_rejected(free + ncols)
        THEN /\ rp_last' = call @@ [result |-> "ColumnsExhausted"]
             /\ UNCHANGED assigned_columns
        ELSE /\ assigned_columns' = append_assignment(assigned_columns,
                    assignment(name, vol, avail, samples_per_row, num_rows, free))
             /\ rp_last' = call @@ [result |-> "ok"]

AssignReagent ==
    /\ \E name \in Reagents, va \in VolumeInputs : assign_reagent(name, va[1], va[2])
    /\ UNCHANGED <<samples_per_row, num_rows, rq_last>>
    /\ UNCHANGED <<engineVars, stationVars, libVars, chooserVars, recipeVars, plateVars, mapperVars, bodyVars>>

\* the position of a name in _assigned_reagents, 0 when it is not there
reagent_index(ac, name) ==
    IF \E i \in 1..Len(ac) : assigned_reagents(ac)[i] = name
    THEN CHOOSE i \in 1..Len(ac) :
            /\ assigned_reagents(ac)[i] = name
            /\ \A j \in 1..(i - 1) : assigned_reagents(ac)[j] # name
    ELSE 0

\* the wells of the labware's columns, column after column: <<column, row>>
wells_of_columns(cols, nrows) ==
    Flatten([j \in 1..Len(cols) |-> [r \in 1..nrows |-> << cols[j], r >>]])

\* zip(a, b)
Zip(a, b) == [k \in 1..Min(Len(a), Len(b)) |-> << a[k], b[k] >>]

QueryKinds == { "get_columns_for_reagent", "get_wells_with_volume",
                "get_first_row_dispensed_volume",
                "get_mts_8_channel_for_labware", "get_rows_count" }

rq_idle == [op |-> "none", name |-> 0, result |-> "none", value |-> <<>>]

\* the outcome of one query: [result, value]
query(kind, name, ac, nrows) ==
    LET i == reagent_index(ac, name)
    IN  IF kind = "get_rows_count"
        THEN [result |-> "ok", value |-> << nrows >>]
        ELSE IF i = 0
        THEN [result |-> "ReagentPlateException", value |-> <<>>]
        ELSE IF kind = "get_columns_for_reagent"
        THEN [result |-> "ok", value |-> ac[i].columns]
        ELSE IF kind = "get_wells_with_volume"
        THEN [result |-> "ok",
              value  |-> Zip(wells_of_columns(ac[i].columns, nrows), ac[i].volumes)]
        ELSE IF kind = "get_mts_8_channel_for_labware"
        THEN [result |-> "ok", value |-> ac[i].mts_8_channel]
        ELSE \* get_first_row_dispensed_volume: c[0] on a column record that is
             \* not keyed by 0, or data["wells"], a key that is never stored
             [result |-> "KeyError", value |-> <<>>]

\* one query of the allocator, for a reagent name
Query ==
    /\ \E kind \in QueryKinds, name \in Reagents :
          rq_last' = [op |-> kind, name |-> name,
                      result |-> query(kind, name, assigned_columns, num_rows).result,
                      value  |-> query(kind, name, assigned_columns, num_rows).value]
    /\ UNCHANGED <<samples_per_row, num_rows, assigned_columns, rp_last>>
    /\ UNCHANGED <<engineVars, stationVars, libVars, chooserVars, recipeVars, plateVars, mapperVars, bodyVars>>

AllocIdle ==
    /\ rq_last = rq_idle
    /\ samples_per_row = ColumnWise(1)
    /\ num_rows = SamplesLen
    /\ assigned_columns = <<>>
    /\ rp_last = [name |-> 0, vol |-> 0, avail |-> 0, free |-> 0, ncols |-> 0, result |-> "none"]

----------------------------------------------------------------------------
(* Pipettes and tracked tubes *)

\* max_volume registered for the p300 and the p1000
P300MaxVolume == 200

P1000MaxVolume == 1000

\* the registry of PipetteChooser, kept sorted by max_volume;
\* air_gap is max_volume * air_gap_fraction (0.1)
registered_pipettes ==
    << [max_volume |-> P300MaxVolume,  air_gap |-> P300MaxVolume \div 10],
       [max_volume |-> P1000MaxVolume, air_gap |-> P1000MaxVolume \div 10] >>

PipetteIds == 1..Len(registered_pipettes)

p300 == 1

\* PipetteChooser.get_pipette(volume) over a registry: the first registered
\* pipette large enough, the largest one otherwise
get_pipette_of(registry, volume) ==
    IF \E p \in 1..Len(registry) : registry[p].max_volume >= volume
    THEN CHOOSE p \in 1..Len(registry) :
            /\ registry[p].max_volume >= volume
            /\ \A q \in 1..Len(registry) : registry[q].max_volume >= volume => p <= q
    ELSE Len(registry)

\* the reagent station's chooser
get_pipette(volume) == get_pipette_of(registered_pipettes, volume)

get_max_volume(p) == registered_pipettes[p].max_volume

get_air_gap(p) == registered_pipettes[p].air_gap

\* largest number of steps of a recipe
MaxSteps == 2

ReagentTubeNames == << "reagent1", "reagent2", "reagent3", "reagent4" >>

\* the WellWithVolume objects: the tube assigned to the recipe, one tube per
\* reagent of its steps, and the destination well of the running transfer
TubeIds == {"tube", "well"} \cup { ReagentTubeNames[k] : k \in 1..MaxSteps }

\* station drop(pipette) and pick_up(pipette)
drop(p) == [pip EXCEPT ![p] = [current_volume |-> 0, has_tip |-> FALSE]]

pick_up(ps, p) == [ps EXCEPT ![p].has_tip = TRUE]

aspirate(ps, p, v) == [ps EXCEPT ![p].current_volume = @ + v]

dispense(ps, p, v) == [ps EXCEPT ![p].current_volume = @ - v]

\* WellWithVolume.fill and WellWithVolume.extract_vol_and_get_height
fill(ts, t, v) == [ts EXCEPT ![t] = @ + v]

extract_vol(ts, t, v) == [ts EXCEPT ![t] = @ - v]

----------------------------------------------------------------------------
(* TransferManager *)

\* TransferManager.__init__
tm_init ==
    [ pipette |-> 0, total_set |-> TRUE, total |-> 0,
      max_volume |-> 0, air_gap |-> 0, tips_per_row |-> 0,
      mix_times |-> 0, mix_volume |-> 0, onto_beads |-> FALSE ]

\* setup_transfer; total_set = FALSE stands for total_volume_to_transfer=None
setup_transfer(pipette, max_volume, air_gap, total_set, total) ==
    [ pipette |-> pipette, total_set |-> total_set, total |-> total,
      max_volume |-> max_volume, air_gap |-> air_gap, tips_per_row |-> 1,
      mix_times |-> 0, mix_volume |-> 0, onto_beads |-> FALSE ]

setup_mix(t, mix_times, mix_volume) ==
    [t EXCEPT !.mix_times = mix_times, !.mix_volume = mix_volume]

mix_enabled(t) == t.mix_volume # 0 /\ t.mix_times # 0

\* the volume handed to mix_well
mix_well_volume(t) == Min(t.mix_volume, t.max_volume)

pipette_available_volume_mutant(max_volume, air_gap, disposal) == max_volume - air_gap
pipette_available_volume(max_volume, air_gap, disposal) == max_volume - air_gap - disposal

volume_to_transfer_mutant(volume, available) == Min(volume, available \div 2)
volume_to_transfer(volume, available) == Min(volume, available)

needs_refill(current_volume, air_gap, disposal, vtt) ==
    (current_volume - air_gap - disposal) < vtt

\* the batch total left out: the pipette is filled
total_or_mutant(t, vtt) == t.max_volume

\* self._total_volume_to_transfer or volume_to_transfer
total_or(t, vtt) == IF t.total_set /\ t.total # 0 THEN t.total ELSE vtt

total_remaining_volume_mutant(available, t, vtt, current_volume, disposal) ==
    Min(available, total_or(t, vtt)) - current_volume
total_remaining_volume(available, t, vtt, current_volume, disposal) ==
    Min(available, total_or(t, vtt)) - (current_volume - disposal)

Available == pipette_available_volume(tm.max_volume, tm.air_gap, xfer.disposal)

xfer_idle ==
    [ src |-> "tube", dst |-> "well", volume |-> 0, requested |-> 0, disposal |-> 0,
      change_tip |-> FALSE, drop_tip_after |-> FALSE, drop_tip |-> FALSE,
      vtt |-> 0, mix_left |-> 0, mix_ret |-> "idle" ]

\* picks, drops: the calls of the two tip callbacks made by the running call
hist_idle == [ dispensed |-> <<>>, dest_start |-> 0, aspirated |-> 0,
               picks |-> 0, drops |-> 0 ]

\* a call of TransferManager.transfer: the arguments become locals
call_transfer(src, dst, volume, disposal, change_tip, drop_tip_after, return_to) ==
    /\ xfer' = [xfer_idle EXCEPT !.src = src, !.dst = dst, !.volume = volume,
                    !.requested = volume, !.disposal = disposal,
                    !.change_tip = change_tip, !.drop_tip_after = drop_tip_after]
    /\ hist' = hist_idle
    /\ pc' = "t_entry"
    /\ ret' = return_to

\* before the loop: math.ceil(volume / pipette_available_volume) raises
\* ZeroDivisionError when nothing is available; a plain well gets a fresh
\* WellWithVolume(well, 0)
T_Entry ==
    /\ pc = "t_entry"
    /\ IF Available = 0
       THEN /\ pc' = "raised"
            /\ UNCHANGED <<tubes, hist>>
       ELSE LET ts1 == IF xfer.dst = "well" THEN [tubes EXCEPT !["well"] = 0] ELSE tubes
            IN  /\ tubes' = ts1
                /\ hist' = [hist EXCEPT !.dest_start = ts1[xfer.dst]]
                /\ pc' = "t_loop"
    /\ UNCHANGED <<pip, tm, xfer, ret>>
    /\ UNCHANGED <<allocVars, stationVars, libVars, chooserVars, recipeVars, plateVars, mapperVars, bodyVars>>

\* head of the while loop: tip handling, the cycle's volume, the refill test
T_LoopHead ==
    /\ pc = "t_loop"
    /\ IF xfer.volume > 0
       THEN LET p   == tm.pipette
                dropped == xfer.change_tip /\ pip[p].has_tip
                ps1 == IF dropped THEN drop(p) ELSE pip
                picked == ~ps1[p].has_tip
                ps2 == IF picked THEN pick_up(ps1, p) ELSE ps1
                vtt == volume_to_transfer(xfer.volume, Available)
            IN  /\ pip' = ps2
                /\ hist' = [hist EXCEPT !.drops = @ + (IF dropped THEN 1 ELSE 0),
                                        !.picks = @ + (IF picked THEN 1 ELSE 0)]
                /\ xfer' = [xfer EXCEPT !.vtt = vtt]
                /\ pc' = IF needs_refill(ps2[p].current_volume, tm.air_gap, xfer.disposal, vtt)
                         THEN "t_release" ELSE "t_fill"
       ELSE /\ pc' = "t_check_mix"
            /\ UNCHANGED <<pip, xfer, hist>>
    /\ UNCHANGED <<tubes, tm, ret>>
    /\ UNCHANGED <<allocVars, stationVars, libVars, chooserVars, recipeVars, plateVars, mapperVars, bodyVars>>

\* refill: the held air gap is released over the source
T_ReleaseAirGap ==
    /\ pc = "t_release"
    /\ pip' = IF tm.air_gap # 0 /\ pip[tm.pipette].current_volume >= tm.air_gap
              THEN dispense(pip, tm.pipette, tm.air_gap) ELSE pip
    /\ pc' = "t_aspirate"
    /\ UNCHANGED <<tubes, tm, xfer, hist, ret>>
    /\ UNCHANGED <<allocVars, stationVars, libVars, chooserVars, recipeVars, plateVars, mapperVars, bodyVars>>

\* refill: _aspirate(total_remaining_volume, source) from a WellWithVolume
T_Aspirate ==
    /\ pc = "t_aspirate"
    /\ LET amount == total_remaining_volume(Available, tm, xfer.vtt,
                                            pip[tm.pipette].current_volume, xfer.disposal)
       IN  /\ tubes' = extract_vol(tubes, xfer.src, amount * tm.tips_per_row)
           /\ pip' = aspirate(pip, tm.pipette, amount)
           /\ hist' = [hist EXCEPT !.aspirated = @ + amount]
    /\ pc' = "t_air_gap"
    /\ UNCHANGED <<tm, xfer, ret>>
    /\ UNCHANGED <<allocVars, stationVars, libVars, chooserVars, recipeVars, plateVars, mapperVars, bodyVars>>

\* refill: the air gap taken after the aspirate
T_AirGap ==
    /\ pc = "t_air_gap"
    /\ pip' = IF tm.air_gap # 0 THEN aspirate(pip, tm.pipette, tm.air_gap) ELSE pip
    /\ pc' = "t_fill"
    /\ UNCHANGED <<tubes, tm, xfer, hist, ret>>
    /\ UNCHANGED <<allocVars, stationVars, libVars, chooserVars, recipeVars, plateVars, mapperVars, bodyVars>>

\* the destination is credited and the air gap is dispensed at its top
T_Fill ==
    /\ pc = "t_fill"
    /\ tubes' = fill(tubes, xfer.dst, xfer.vtt)
    /\ pip' = IF tm.air_gap # 0 THEN dispense(pip, tm.pipette, tm.air_gap) ELSE pip
    /\ pc' = "t_dispense"
    /\ UNCHANGED <<tm, xfer, hist, ret>>
    /\ UNCHANGED <<allocVars, stationVars, libVars, chooserVars, recipeVars, plateVars, mapperVars, bodyVars>>

\* the dispense and the two counters
T_Dispense ==
    /\ pc = "t_dispense"
    /\ pip' = dispense(pip, tm.pipette, xfer.vtt)
    /\ hist' = [hist EXCEPT !.dispensed = Append(@, <<xfer.volume, xfer.vtt>>)]
    /\ xfer' = [xfer EXCEPT !.volume = @ - xfer.vtt]
    /\ tm' = IF tm.total_set THEN [tm EXCEPT !.total = @ - xfer.vtt] ELSE tm
    /\ pc' = "t_after"
    /\ UNCHANGED <<tubes, ret>>
    /\ UNCHANGED <<allocVars, stationVars, libVars, chooserVars, recipeVars, plateVars, mapperVars, bodyVars>>

\* the air gap taken when another cycle follows
T_AfterDispense ==
    /\ pc = "t_after"
    /\ pip' = IF xfer.volume > 0 /\ tm.air_gap # 0
              THEN aspirate(pip, tm.pipette, tm.air_gap) ELSE pip
    /\ pc' = "t_loop"
    /\ UNCHANGED <<tubes, tm, xfer, hist, ret>>
    /\ UNCHANGED <<allocVars, stationVars, libVars, chooserVars, recipeVars, plateVars, mapperVars, bodyVars>>

\* entry of mix_well: the ledger is debited and credited by the same volume
mix_well_entry(ts, t, v) == fill(extract_vol(ts, t, v), t, v)

\* "Checking for mix"
T_CheckMix ==
    /\ pc = "t_check_mix"
    /\ IF mix_enabled(tm)
       THEN /\ tubes' = mix_well_entry(tubes, xfer.dst, mix_well_volume(tm))
            /\ xfer' = [xfer EXCEPT !.mix_left = tm.mix_times, !.mix_ret = "t_final"]
            /\ pc' = "m_aspirate"
       ELSE /\ pc' = "t_final"
            /\ UNCHANGED <<tubes, xfer>>
    /\ UNCHANGED <<pip, tm, hist, ret>>
    /\ UNCHANGED <<allocVars, stationVars, libVars, chooserVars, recipeVars, plateVars, mapperVars, bodyVars>>

\* one repetition of mix_well: aspirate ...
M_Aspirate ==
    /\ pc = "m_aspirate"
    /\ pip' = aspirate(pip, tm.pipette, mix_well_volume(tm))
    /\ pc' = "m_dispense"
    /\ UNCHANGED <<tubes, tm, xfer, hist, ret>>
    /\ UNCHANGED <<allocVars, stationVars, libVars, chooserVars, recipeVars, plateVars, mapperVars, bodyVars>>

\* ... and dispense
M_Dispense ==
    /\ pc = "m_dispense"
    /\ pip' = dispense(pip, tm.pipette, mix_well_volume(tm))
    /\ xfer' = [xfer EXCEPT !.mix_left = @ - 1]
    /\ pc' = IF xfer.mix_left > 1 THEN "m_aspirate" ELSE xfer.mix_ret
    /\ UNCHANGED <<tubes, tm, hist, ret>>
    /\ UNCHANGED <<allocVars, stationVars, libVars, chooserVars, recipeVars, plateVars, mapperVars, bodyVars>>

\* "Checking for air gap" and drop_tip_after
T_Final ==
    /\ pc = "t_final"
    /\ LET ps1 == IF tm.air_gap # 0 THEN aspirate(pip, tm.pipette, tm.air_gap) ELSE pip
       IN  pip' = IF xfer.drop_tip_after THEN drop(tm.pipette) ELSE ps1
    /\ hist' = [hist EXCEPT !.drops = @ + (IF xfer.drop_tip_after THEN 1 ELSE 0)]
    /\ pc' = "t_return"
    /\ UNCHANGED <<tubes, tm, xfer, ret>>
    /\ UNCHANGED <<allocVars, stationVars, libVars, chooserVars, recipeVars, plateVars, mapperVars, bodyVars>>

\* transfer returns to its caller
T_Return ==
    /\ pc = "t_return"
    /\ pc' = ret
    /\ UNCHANGED <<pip, tubes, tm, xfer, hist, ret>>
    /\ UNCHANGED <<allocVars, stationVars, libVars, chooserVars, recipeVars, plateVars, mapperVars, bodyVars>>

\* entry of TransferManager.mix: a tip is picked when none is held, then mix_well
call_mix(ps, t, dst, drop_tip, return_to) ==
    /\ pip' = IF ~ps[t.pipette].has_tip THEN pick_up(ps, t.pipette) ELSE ps
    /\ hist' = [hist_idle EXCEPT !.picks = IF ~ps[t.pipette].has_tip THEN 1 ELSE 0]
    /\ tubes' = mix_well_entry(tubes, dst, mix_well_volume(t))
    /\ xfer' = [xfer_idle EXCEPT !.dst = dst, !.drop_tip = drop_tip,
                    !.mix_left = t.mix_times, !.mix_ret = "x_final"]
    /\ pc' = IF t.mix_times > 0 THEN "m_aspirate" ELSE "x_final"
    /\ ret' = return_to

\* end of TransferManager.mix: air gap, drop_tip, return
X_Final ==
    /\ pc = "x_final"
    /\ LET ps1 == IF tm.air_gap # 0 THEN aspirate(pip, tm.pipette, tm.air_gap) ELSE pip
       IN  pip' = IF xfer.drop_tip THEN drop(tm.pipette) ELSE ps1
    /\ hist' = [hist EXCEPT !.drops = @ + (IF xfer.drop_tip THEN 1 ELSE 0)]
    /\ pc' = ret
    /\ UNCHANGED <<tubes, tm, xfer, ret>>
    /\ UNCHANGED <<allocVars, stationVars, libVars, chooserVars, recipeVars, plateVars, mapperVars, bodyVars>>

TransferStep ==
    \/ T_Entry
    \/ T_LoopHead
    \/ T_ReleaseAirGap
    \/ T_Aspirate
    \/ T_AirGap
    \/ T_Fill
    \/ T_Dispense
    \/ T_AfterDispense
    \/ T_CheckMix
    \/ T_Final
    \/ T_Return

MixStep ==
    \/ M_Aspirate
    \/ M_Dispense

TransferPcs == { "t_entry", "t_loop", "t_release", "t_aspirate", "t_air_gap", "t_fill",
                 "t_dispense", "t_after", "t_check_mix", "t_final", "t_return" }

MixPcs == { "m_aspirate", "m_dispense" }

----------------------------------------------------------------------------
(* ReagentStation: fill_wells / fill_shared_plate and prepare *)

\* largest number of destinations of one batch
MaxDests == 2

\* per-destination volumes, in ul
FillVolumes == {40, 100, 250}

\* disposal_volume: none, the 5 ul of distribute_reagent (also
\* p300.min_volume * disposal_volume_ratio), and one that with the air gap
\* of the p300 leaves nothing available
DisposalVolumes == {0, 5, 180}

\* (mix_times, mix_volume) given to setup_mix; <<0, 0>> is no mixing
MixSetups == { <<0, 0>>, <<1, 20>>, <<2, 200>> }

\* per-sample volumes of a recipe step, in ul
StepVolumes == {10, 150}

\* self._num_samples in the prepare runs
NumSamplesChoices == {1, 8}

\* mix_times of prepare
PrepareMixTimes == 10

\* n destinations: the first n - 1 take v each, the last takes w
dest_volumes(n, v, w) == [i \in 1..n |-> IF i < n THEN v ELSE w]

\* mix_set: setup_mix was called after the most recent setup_transfer
batch_idle ==
    [ kind |-> "none", vols |-> <<>>, i |-> 0, disposal |-> 0, pipette |-> 0,
      change_tip |-> FALSE, drop_tip_after |-> FALSE,
      steps |-> <<>>, num_samples |-> 0, last_used_pipette |-> 0,
      executed |-> 0, skipped |-> 0, source_start |-> 0,
      mix_set |-> FALSE ]

\* self.run_stage(stage): the values self._run_stage can take after the call;
\* once stages run they keep running
run_stage_results(rs) == IF rs THEN {TRUE} ELSE BOOLEAN

\* the skip branch of fill_wells / fill_shared_plate
skipped_source_volume(v, volume) == v - volume

\* fill_wells / fill_shared_plate up to the loop: the batch total, the
\* pipette parameters, setup_transfer.  The source tube is loaded with the
\* batch total.  The TransferManager options the two methods leave at their
\* defaults (no batch total, setup_mix, change_tip, drop_tip_after) are
\* drawn as well.
FillBegin ==
    /\ pc = "start"
    /\ \E n \in 1..MaxDests, v \in FillVolumes, w \in FillVolumes,
          disposal \in DisposalVolumes, use_air_gap \in BOOLEAN,
          total_set \in BOOLEAN, m \in MixSetups,
          change_tip \in BOOLEAN, drop_tip_after \in BOOLEAN, rs \in BOOLEAN :
          LET vols  == dest_volumes(n, v, w)
              total_volume_to_aspirate == SeqSum(vols)
              t == setup_transfer(p300, get_max_volume(p300),
                                  IF use_air_gap THEN get_air_gap(p300) ELSE 0,
                                  total_set, IF total_set THEN total_volume_to_aspirate ELSE 0)
          IN  /\ tm' = setup_mix(t, m[1], m[2])
              /\ tubes' = [tubes EXCEPT !["tube"] = total_volume_to_aspirate]
              /\ skip_ledger' = total_volume_to_aspirate
              /\ batch' = [batch_idle EXCEPT !.kind = "fill", !.vols = vols, !.i = 1,
                               !.disposal = disposal, !.pipette = p300,
                               !.change_tip = change_tip, !.drop_tip_after = drop_tip_after,
                               !.source_start = total_volume_to_aspirate]
              /\ run_stage' = rs
    /\ pc' = "fill_loop"
    /\ UNCHANGED <<pip, xfer, hist, ret>>
    /\ UNCHANGED <<allocVars, libVars, chooserVars, recipeVars, plateVars, mapperVars, bodyVars>>

\* one destination of the loop: skipped (volume-only drawdown) or transferred
FillStep ==
    /\ pc = "fill_loop"
    /\ batch.i <= Len(batch.vols)
    /\ LET volume == batch.vols[batch.i]
       IN  /\ \E rs \in run_stage_results(run_stage) :
                /\ run_stage' = rs
                /\ IF ~rs
                   THEN /\ tubes' = [tubes EXCEPT !["tube"] = skipped_source_volume(@, volume)]
                        /\ batch' = [batch EXCEPT !.i = @ + 1, !.skipped = @ + 1]
                        /\ UNCHANGED <<xfer, hist, pc, ret>>
                   ELSE /\ call_transfer("tube", "well", volume, batch.disposal,
                                         batch.change_tip, batch.drop_tip_after, "fill_loop")
                        /\ UNCHANGED tubes
                        /\ batch' = [batch EXCEPT !.i = @ + 1, !.executed = @ + 1]
           /\ skip_ledger' = skipped_source_volume(skip_ledger, volume)
    /\ UNCHANGED <<pip, tm>>
    /\ UNCHANGED <<allocVars, libVars, chooserVars, recipeVars, plateVars, mapperVars, bodyVars>>

\* after the loop: the tip is dropped when one is held
FillEnd ==
    /\ pc = "fill_loop"
    /\ batch.i > Len(batch.vols)
    /\ pip' = IF pip[batch.pipette].has_tip THEN drop(batch.pipette) ELSE pip
    /\ pc' = "fill_done"
    /\ UNCHANGED <<tubes, tm, xfer, hist, ret, run_stage, batch, skip_ledger>>
    /\ UNCHANGED <<allocVars, libVars, chooserVars, recipeVars, plateVars, mapperVars, bodyVars>>

\* Recipe.total_prepared_vol
total_prepared_vol(steps) == SeqSum(steps)

\* Recipe.needs_empty_tube
needs_empty_tube(steps) == Len(steps) > 1

\* load_tubes and load_empty_tubes for one recipe: a recipe prepared in an
\* empty tube gets one tube per reagent holding vol * num_samples and an empty
\* tube of its own; a single-step recipe is its own reagent tube
loaded_tubes(steps, n) ==
    [ t \in TubeIds |->
        IF t = "tube" THEN (IF needs_empty_tube(steps) THEN 0 ELSE total_prepared_vol(steps) * n)
        ELSE IF needs_empty_tube(steps) /\ \E k \in 1..Len(steps) : ReagentTubeNames[k] = t
             THEN steps[CHOOSE k \in 1..Len(steps) : ReagentTubeNames[k] = t] * n
             ELSE 0 ]

RecipeSteps == UNION { [1..k -> StepVolumes] : k \in 1..MaxSteps }

\* prepare: the stage test; nothing else happens when the stage is skipped
\* or the recipe needs no empty tube
PrepBegin ==
    /\ pc = "start"
    /\ \E steps \in RecipeSteps, n \in NumSamplesChoices, rs0 \in BOOLEAN :
          \E rs \in run_stage_results(rs0) :
              /\ run_stage' = rs
              /\ tubes' = loaded_tubes(steps, n)
              /\ batch' = [batch_idle EXCEPT !.kind = "prepare", !.steps = steps,
                               !.num_samples = n, !.i = 1]
              /\ pc' = IF rs /\ needs_empty_tube(steps) THEN "prep_step" ELSE "prep_done"
    /\ UNCHANGED <<pip, tm, xfer, hist, ret, skip_ledger>>
    /\ UNCHANGED <<allocVars, libVars, chooserVars, recipeVars, plateVars, mapperVars, bodyVars>>

\* one step of the recipe: pipette choice, tip of the previous pipette
\* dropped, setup_transfer, transfer into the recipe's tube
PrepStep ==
    /\ pc = "prep_step"
    /\ batch.i <= Len(batch.steps)
    /\ LET vtt     == batch.steps[batch.i] * batch.num_samples
           pipette == get_pipette(vtt)
           last    == batch.last_used_pipette
       IN  /\ pip' = IF last # 0 /\ pip[last].has_tip THEN drop(last) ELSE pip
           /\ tm' = setup_transfer(pipette, get_max_volume(pipette), 0, TRUE, vtt)
           /\ call_transfer(ReagentTubeNames[batch.i], "tube", vtt, 0, FALSE, FALSE, "prep_step")
           /\ UNCHANGED tubes
           /\ batch' = [batch EXCEPT !.i = @ + 1, !.last_used_pipette = pipette,
                                     !.executed = @ + 1]
    /\ UNCHANGED <<run_stage, skip_ledger>>
    /\ UNCHANGED <<allocVars, libVars, chooserVars, recipeVars, plateVars, mapperVars, bodyVars>>

\* after the steps: the mix of the prepared tube with 80% of its volume
PrepMix ==
    /\ pc = "prep_step"
    /\ batch.i > Len(batch.steps)
    /\ LET mix_volume  == (total_prepared_vol(batch.steps) * batch.num_samples * 8) \div 10
           mix_pipette == get_pipette(mix_volume)
           last        == batch.last_used_pipette
           ps          == IF last # 0 /\ last # mix_pipette /\ pip[last].has_tip
                          THEN drop(last) ELSE pip
           t           == setup_mix(setup_transfer(mix_pipette, get_max_volume(mix_pipette),
                                                   0, FALSE, 0),
                                    PrepareMixTimes, mix_volume)
       IN  /\ tm' = t
           /\ call_mix(ps, t, "tube", TRUE, "prep_done")
    /\ UNCHANGED <<run_stage, batch, skip_ledger>>
    /\ UNCHANGED <<allocVars, libVars, chooserVars, recipeVars, plateVars, mapperVars, bodyVars>>

----------------------------------------------------------------------------
(* TransferManager driven call by call: setup_transfer, setup_mix,         *)
(* setup_onto_beads, transfer and mix in any order                         *)

\* largest number of transfer and mix calls of one sequence
MaxCalls == 2

\* the volume arguments of transfer
CallVolumes == {0, 40, 250}

\* the disposal_volume arguments of transfer
CallDisposals == {0, 5}

\* (mix_times, mix_volume) given to setup_mix
CallMixSetups == { <<0, 0>>, <<1, 20>> }

\* the mix options are left on
clear_options_mutant(t) == [t EXCEPT !.mix_times = 1, !.mix_volume = 1]

\* clear_setup_mix and clear_onto_beads_values
clear_options(t) == [t EXCEPT !.mix_times = 0, !.mix_volume = 0, !.onto_beads = FALSE]

\* setup_onto_beads(onto_beads)
setup_onto_beads(t, onto_beads) == [t EXCEPT !.onto_beads = onto_beads]

\* setup_transfer(pipette, max_volume, air_gap, ...) between two calls
SetupTransfer ==
    /\ pc = "idle"
    /\ \E use_air_gap \in BOOLEAN :
          tm' = clear_options(
                    [tm EXCEPT !.pipette = p300,
                               !.total_set = FALSE, !.total = 0,
                               !.max_volume = get_max_volume(p300),
                               !.air_gap = IF use_air_gap THEN get_air_gap(p300) ELSE 0,
                               !.tips_per_row = 1])
    /\ batch' = [batch EXCEPT !.kind = "setup_transfer", !.mix_set = FALSE]
    /\ UNCHANGED <<pip, tubes, xfer, hist, pc, ret, run_stage, skip_ledger>>
    /\ UNCHANGED <<allocVars, libVars, chooserVars, recipeVars, plateVars, mapperVars, bodyVars>>

\* setup_mix(mix_times, mix_volume)
SetupMix ==
    /\ pc = "idle"
    /\ batch.kind # "none"
    /\ \E m \in CallMixSetups : tm' = setup_mix(tm, m[1], m[2])
    /\ batch' = [batch EXCEPT !.kind = "setup_mix", !.mix_set = TRUE]
    /\ UNCHANGED <<pip, tubes, xfer, hist, pc, ret, run_stage, skip_ledger>>
    /\ UNCHANGED <<allocVars, libVars, chooserVars, recipeVars, plateVars, mapperVars, bodyVars>>

\* setup_onto_beads(onto_beads)
SetupOntoBeads ==
    /\ pc = "idle"
    /\ batch.kind # "none"
    /\ \E onto_beads \in BOOLEAN : tm' = setup_onto_beads(tm, onto_beads)
    /\ batch' = [batch EXCEPT !.kind = "setup_onto_beads"]
    /\ UNCHANGED <<pip, tubes, xfer, hist, pc, ret, run_stage, skip_ledger>>
    /\ UNCHANGED <<allocVars, libVars, chooserVars, recipeVars, plateVars, mapperVars, bodyVars>>

\* transfer(source, destination, volume, disposal_volume, change_tip,
\* drop_tip_after) called after a setup_transfer
CallTransfer ==
    /\ pc = "idle"
    /\ batch.kind # "none"
    /\ batch.executed < MaxCalls
    /\ \E volume \in CallVolumes, disposal \in CallDisposals,
          change_tip \in BOOLEAN, drop_tip_after \in BOOLEAN :
          call_transfer("tube", "well", volume, disposal, change_tip,
                        drop_tip_after, "idle")
    /\ batch' = [batch EXCEPT !.kind = "transfer", !.executed = @ + 1]
    /\ UNCHANGED <<pip, tubes, tm, run_stage, skip_ledger>>
    /\ UNCHANGED <<allocVars, libVars, chooserVars, recipeVars, plateVars, mapperVars, bodyVars>>

\* mix(destination, drop_tip) called after a setup_transfer
CallMix ==
    /\ pc = "idle"
    /\ batch.kind # "none"
    /\ batch.executed < MaxCalls
    /\ \E drop_tip \in BOOLEAN : call_mix(pip, tm, "well", drop_tip, "idle")
    /\ batch' = [batch EXCEPT !.kind = "mix", !.executed = @ + 1]
    /\ UNCHANGED <<tm, run_stage, skip_ledger>>
    /\ UNCHANGED <<allocVars, libVars, chooserVars, recipeVars, plateVars, mapperVars, bodyVars>>

----------------------------------------------------------------------------
(* LibraryStation: distribute_clean and distribute_dirty *)

\* max_volume registered for the p20
P20MaxVolume == 20

\* channels of the two multi-channel pipettes
Channels == 8

\* the registry of the library station's PipetteChooser
lib_registered_pipettes ==
    << [max_volume |-> P20MaxVolume,  air_gap |-> P20MaxVolume \div 10],
       [max_volume |-> P300MaxVolume, air_gap |-> P300MaxVolume \div 10] >>

\* recipe.volume_final, in ul
LibVolumes == {15, 50, 250}

\* disposal_volume given to distribute_clean: none, or 10 ul
\* (p300.min_volume / 2, the default with the p300)
LibDisposalVolumes == {0, 10}

\* helper.get_rows_count(): 8 on the reagent plate, 1 on the wash plate
RowsCounts == {1, SamplesLen}

source_tip_per_row(rows_count) == Ceil(Channels, rows_count)

lib_idle ==
    [ method |-> "none", volume_final |-> 0, n |-> 0, i |-> 0, volume |-> 0,
      disposal |-> 0, tips |-> 0, max_volume |-> 0, air_gap |-> 0, available |-> 0,
      current_volume |-> 0, has_tip |-> FALSE, executed |-> 0, skipped |-> 0 ]

\* use_volume_only followed by prepare_aspiration on the MultiTubeSource
mts_aspirate(v, amount, tips) == v - amount * (tips - 1) - amount

\* use_volume_only(volume) of the skip branch
mts_skip_destination(v, volume) == v - volume

\* both methods up to the loop: pipette choice, tips per source row,
\* disposal volume (distribute_dirty keeps none) and available volume
DistributeBegin ==
    /\ pc = "lib_start"
    /\ \E method \in {"clean", "dirty"}, volume_final \in LibVolumes, n \in 1..MaxDests,
          rows_count \in RowsCounts, d \in LibDisposalVolumes, rs \in BOOLEAN :
          LET pipette  == get_pipette_of(lib_registered_pipettes, volume_final)
              max      == lib_registered_pipettes[pipette].max_volume
              disposal == IF method = "clean" THEN d ELSE 0
              tips     == source_tip_per_row(rows_count)
              loaded   == n * volume_final * tips
          IN  /\ lib' = [lib_idle EXCEPT !.method = method, !.volume_final = volume_final,
                             !.n = n, !.disposal = disposal, !.tips = tips,
                             !.max_volume = max,
                             !.air_gap = lib_registered_pipettes[pipette].air_gap,
                             !.available = max - disposal]
              /\ mts' = loaded
              /\ mts_skip' = loaded
              /\ run_stage' = rs
    /\ pc' = "lib_loop"
    /\ UNCHANGED <<pip, tubes, tm, xfer, hist, ret, batch, skip_ledger>>
    /\ UNCHANGED <<allocVars, chooserVars, recipeVars, plateVars, mapperVars, bodyVars>>

\* one destination: the stage test, and the skip branch
DistributeDest ==
    /\ pc = "lib_loop"
    /\ lib.i < lib.n
    /\ \E rs \in run_stage_results(run_stage) :
          /\ run_stage' = rs
          /\ IF rs
             THEN /\ lib' = [lib EXCEPT !.volume = lib.volume_final, !.executed = @ + 1]
                  /\ pc' = "lib_cycle"
                  /\ UNCHANGED mts
             ELSE /\ mts' = mts_skip_destination(mts, lib.volume_final)
                  /\ lib' = [lib EXCEPT !.i = @ + 1, !.skipped = @ + 1]
                  /\ UNCHANGED pc
    /\ mts_skip' = mts_skip_destination(mts_skip, lib.volume_final)
    /\ UNCHANGED <<pip, tubes, tm, xfer, hist, ret, batch, skip_ledger>>
    /\ UNCHANGED <<allocVars, chooserVars, recipeVars, plateVars, mapperVars, bodyVars>>

\* one cycle of the while loop of distribute_clean
clean_cycle(l, source) ==
    LET vtt   == Min(l.volume, l.available)
        held  == l.current_volume
        need  == (held - l.disposal) < vtt
        refill_volume ==
            Min(l.available, (l.n - l.i) * l.volume_final) - (held - l.disposal)
        taken == IF need THEN refill_volume ELSE 0
    IN  [ lib |-> [l EXCEPT !.has_tip = TRUE,
                            !.current_volume = held + taken - vtt,
                            !.volume = @ - vtt],
          mts |-> IF need THEN mts_aspirate(source, refill_volume, l.tips)
                  ELSE source ]

\* one cycle of the while loop of distribute_dirty: the tip is changed first
dirty_cycle(l, source) ==
    LET vtt   == Min(l.volume, l.available)
        held  == IF l.has_tip THEN 0 ELSE l.current_volume
        need  == held < vtt
        refill_volume == l.volume - held
        taken == IF need THEN refill_volume ELSE 0
    IN  [ lib |-> [l EXCEPT !.has_tip = TRUE,
                            !.current_volume = held + taken - vtt,
                            !.volume = @ - vtt],
          mts |-> IF need THEN mts_aspirate(source, refill_volume, l.tips)
                  ELSE source ]

DistributeCycle ==
    /\ pc = "lib_cycle"
    /\ lib.volume > 0
    /\ LET r == IF lib.method = "clean" THEN clean_cycle(lib, mts) ELSE dirty_cycle(lib, mts)
       IN  /\ lib' = r.lib
           /\ mts' = r.mts
    /\ UNCHANGED <<pc, mts_skip, run_stage>>
    /\ UNCHANGED <<pip, tubes, tm, xfer, hist, ret, batch, skip_ledger>>
    /\ UNCHANGED <<allocVars, chooserVars, recipeVars, plateVars, mapperVars, bodyVars>>

\* after the while loop: distribute_dirty mixes (the pipette ends as it
\* began), takes an air gap and drops the tip; distribute_clean goes on
DistributeDestEnd ==
    /\ pc = "lib_cycle"
    /\ lib.volume <= 0
    /\ lib' = IF lib.method = "dirty"
              THEN [lib EXCEPT !.i = @ + 1, !.current_volume = 0, !.has_tip = FALSE]
              ELSE [lib EXCEPT !.i = @ + 1]
    /\ pc' = "lib_loop"
    /\ UNCHANGED <<mts, mts_skip, run_stage>>
    /\ UNCHANGED <<pip, tubes, tm, xfer, hist, ret, batch, skip_ledger>>
    /\ UNCHANGED <<allocVars, chooserVars, recipeVars, plateVars, mapperVars, bodyVars>>

\* after the destinations: distribute_clean drops the tip it holds
DistributeEnd ==
    /\ pc = "lib_loop"
    /\ lib.i >= lib.n
    /\ lib' = IF lib.method = "clean" /\ lib.has_tip
              THEN [lib EXCEPT !.current_volume = 0, !.has_tip = FALSE]
              ELSE lib
    /\ pc' = "lib_done"
    /\ UNCHANGED <<mts, mts_skip, run_stage>>
    /\ UNCHANGED <<pip, tubes, tm, xfer, hist, ret, batch, skip_ledger>>
    /\ UNCHANGED <<allocVars, chooserVars, recipeVars, plateVars, mapperVars, bodyVars>>

----------------------------------------------------------------------------
(* PipetteChooser (pipette_chooser.py): register and get_pipette over a    *)
(* registry built by the calls themselves, in any order of capacities      *)

\* largest number of register calls
MaxRegistered == 3

\* largest number of register calls where the clock runs
MaxTimedRegistered == 2

\* latest value time.monotonic() returns
MaxTime == 2

\* PipetteChooser.__init__: air_gap_fraction = 0.1, as the divisor of max_volume
AirGapDivisor == 10

\* the instrument objects handed to register
ChooserPipettes == {"PIPETTE1", "PIPETTE2"}

\* the max_volume arguments of register
ChooserMaxVolumes == {10, 20}

\* the air_gap_volume arguments of register; None is the default
None == -1

ChooserAirGaps == {None, 0, 3}

\* the volume arguments of get_pipette
ChooserRequests == {8, 10, 25}

\* an entry that register never gave a "last_used" key
NoLastUsed == -1

\* list.insert(i, x), i counted from 0
ListInsert(s, i, x) == SubSeq(s, 1, i) \o <<x>> \o SubSeq(s, i + 1, Len(s))

\* bisect.bisect_right(a, x): the binary search of the standard library,
\* lo and hi counted from 0
RECURSIVE bisect_right(_, _, _, _)
bisect_right(a, x, lo, hi) ==
    IF lo < hi
    THEN LET mid == (lo + hi) \div 2
         IN  IF x < a[mid + 1]
             THEN bisect_right(a, x, lo, mid)
             ELSE bisect_right(a, x, mid + 1, hi)
    ELSE lo

\* bisect.insort(a, x)
insort(a, x) == ListInsert(a, bisect_right(a, x, 0, Len(a)), x)

\* list.index(x), counted from 0: the first position holding x
list_index(a, x) ==
    (CHOOSE i \in 1..Len(a) : a[i] = x /\ \A j \in 1..(i - 1) : a[j] # x) - 1

\* appending, whatever the capacity
register_position_mutant(registry, max_volume) == Len(registry)

\* the position (from 0) at which register inserts the new entry
register_position(registry, max_volume) ==
    LET volumes == [i \in 1..Len(registry) |-> registry[i].max_volume]
    IN  list_index(insort(volumes, max_volume), max_volume)

\* air_gap_volume or max_volume * self._air_gap_fraction
air_gap_of(max_volume, air_gap_volume) ==
    IF air_gap_volume # None /\ air_gap_volume # 0
    THEN air_gap_volume
    ELSE max_volume \div AirGapDivisor

\* _find_pipette: the first entry of the instrument, 0 when there is none
find_pipette(registry, pipette) ==
    IF \E i \in 1..Len(registry) : registry[i].pipette = pipette
    THEN CHOOSE i \in 1..Len(registry) :
            /\ registry[i].pipette = pipette
            /\ \A j \in 1..(i - 1) : registry[j].pipette # pipette
    ELSE 0

\* no time is stored
update_pipette_last_used_time_mutant(registry, pipette, time) == registry

\* _update_pipette_last_used_time
update_pipette_last_used_time(registry, pipette, time) ==
    [registry EXCEPT ![find_pipette(registry, pipette)].last_used = time]

\* the loop of get_pipette: the position of the selected entry
RECURSIVE select_from(_, _, _, _)
select_from(registry, i, volume, consider_air_gap) ==
    IF i > Len(registry)
    THEN Len(registry)
    ELSE IF registry[i].max_volume >=
               volume + (IF consider_air_gap THEN registry[i].air_gap ELSE 0)
         THEN i
         ELSE select_from(registry, i + 1, volume, consider_air_gap)

\* the selection with the air gap left out
select_pipette_mutant(registry, volume, consider_air_gap) ==
    select_from(registry, 1, volume, FALSE)

select_pipette(registry, volume, consider_air_gap) ==
    select_from(registry, 1, volume, consider_air_gap)

\* the unstick threshold (self._unstick_time_seconds), in clock ticks
UnstickTime == 1

\* get_max_volume(pipette, consider_air_gap): [result, value]
chooser_max_volume(registry, pipette, consider_air_gap) ==
    LET i == find_pipette(registry, pipette)
    IN  IF i = 0
        THEN [result |-> "PipetteChooserException", value |-> 0]
        ELSE [result |-> "ok",
              value  |-> registry[i].max_volume
                            - (IF consider_air_gap THEN registry[i].air_gap ELSE 0)]

\* get_air_gap(pipette): [result, value]
chooser_air_gap(registry, pipette) ==
    LET i == find_pipette(registry, pipette)
    IN  IF i = 0
        THEN [result |-> "PipetteChooserException", value |-> 0]
        ELSE [result |-> "ok", value |-> registry[i].air_gap]

\* time.monotonic() - p["last_used"] > self._unstick_time_seconds
unstick_elapsed(time, last_used) == time - last_used > UnstickTime

\* needs_unstick(pipette): [result, value], value 1 for True
needs_unstick(registry, pipette, time) ==
    LET i == find_pipette(registry, pipette)
    IN  IF i = 0
        THEN [result |-> "PipetteChooserException", value |-> 0]
        ELSE IF registry[i].last_used = NoLastUsed
        THEN [result |-> "KeyError", value |-> 0]
        ELSE [result |-> "ok",
              value  |-> IF unstick_elapsed(time, registry[i].last_used)
                         THEN 1 ELSE 0]

chooser_last_idle ==
    [op |-> "none", pipette |-> "none", volume |-> 0,
     consider_air_gap |-> FALSE, position |-> 0,
     given |-> None, result |-> "none", value |-> 0]

ChooserIdle ==
    /\ pipettes = <<>>
    /\ register_calls = 0
    /\ now = 0
    /\ chooser_last = chooser_last_idle

\* PipetteChooser.register(pipette, max_volume, air_gap_volume), as one of
\* at most limit calls
RegisterCall(limit) ==
    /\ register_calls < limit
    /\ \E pipette \in ChooserPipettes, max_volume \in ChooserMaxVolumes,
          air_gap_volume \in ChooserAirGaps :
          LET position == register_position(pipettes, max_volume)
              entry == [pipette |-> pipette,
                        max_volume |-> max_volume,
                        air_gap |-> air_gap_of(max_volume, air_gap_volume),
                        last_used |-> NoLastUsed,
                        call |-> register_calls + 1]
              inserted == ListInsert(pipettes, position, entry)
          IN  /\ pipettes' = update_pipette_last_used_time(inserted, pipette, now)
              /\ chooser_last' = [op |-> "register", pipette |-> pipette,
                                  volume |-> max_volume,
                                  consider_air_gap |-> FALSE,
                                  position |-> position + 1,
                                  given |-> air_gap_volume,
                                  result |-> "ok", value |-> 0]
    /\ register_calls' = register_calls + 1
    /\ UNCHANGED now
    /\ UNCHANGED <<allocVars, engineVars, stationVars, libVars, recipeVars, plateVars, mapperVars, bodyVars>>

Register == RegisterCall(MaxRegistered)

\* register where the clock runs
RegisterTimed == RegisterCall(MaxTimedRegistered)

\* PipetteChooser.get_pipette(volume, consider_air_gap)
GetPipette ==
    /\ \E volume \in ChooserRequests, consider_air_gap \in BOOLEAN :
          IF pipettes = <<>>
          THEN \* self._pipettes[-1] raises IndexError
               /\ chooser_last' = [op |-> "IndexError", pipette |-> "none",
                                   volume |-> volume,
                                   consider_air_gap |-> consider_air_gap,
                                   position |-> 0, given |-> None,
                                   result |-> "IndexError", value |-> 0]
               /\ UNCHANGED pipettes
          ELSE LET position == select_pipette(pipettes, volume, consider_air_gap)
                   selected == pipettes[position].pipette
               IN  /\ pipettes' =
                          update_pipette_last_used_time(pipettes, selected, now)
                   /\ chooser_last' = [op |-> "get_pipette", pipette |-> selected,
                                       volume |-> volume,
                                       consider_air_gap |-> consider_air_gap,
                                       position |-> position, given |-> None,
                                       result |-> "ok", value |-> 0]
    /\ UNCHANGED <<register_calls, now>>
    /\ UNCHANGED <<allocVars, engineVars, stationVars, libVars, recipeVars, plateVars, mapperVars, bodyVars>>

\* the record of a lookup
lookup_record(op, pipette, consider_air_gap, outcome) ==
    [op |-> op, pipette |-> pipette, volume |-> 0,
     consider_air_gap |-> consider_air_gap, position |-> 0, given |-> None,
     result |-> outcome.result, value |-> outcome.value]

\* PipetteChooser.get_max_volume(pipette, consider_air_gap)
GetMaxVolume ==
    /\ \E pipette \in ChooserPipettes, consider_air_gap \in BOOLEAN :
          chooser_last' = lookup_record("get_max_volume", pipette, consider_air_gap,
                              chooser_max_volume(pipettes, pipette, consider_air_gap))
    /\ UNCHANGED <<pipettes, register_calls, now>>
    /\ UNCHANGED <<allocVars, engineVars, stationVars, libVars, recipeVars, plateVars, mapperVars, bodyVars>>

\* PipetteChooser.get_air_gap(pipette)
GetAirGap ==
    /\ \E pipette \in ChooserPipettes :
          chooser_last' = lookup_record("get_air_gap", pipette, FALSE,
                              chooser_air_gap(pipettes, pipette))
    /\ UNCHANGED <<pipettes, register_calls, now>>
    /\ UNCHANGED <<allocVars, engineVars, stationVars, libVars, recipeVars, plateVars, mapperVars, bodyVars>>

\* PipetteChooser.needs_unstick(pipette)
NeedsUnstick ==
    /\ \E pipette \in ChooserPipettes :
          chooser_last' = lookup_record("needs_unstick", pipette, FALSE,
                              needs_unstick(pipettes, pipette, now))
    /\ UNCHANGED <<pipettes, register_calls, now>>
    /\ UNCHANGED <<allocVars, engineVars, stationVars, libVars, recipeVars, plateVars, mapperVars, bodyVars>>

\* time.monotonic() advances between two calls
Tick ==
    /\ now < MaxTime
    /\ now' = now + 1
    /\ UNCHANGED <<pipettes, register_calls, chooser_last>>
    /\ UNCHANGED <<allocVars, engineVars, stationVars, libVars, recipeVars, plateVars, mapperVars, bodyVars>>
----------------------------------------------------------------------------
(* Recipe (recipe.py).  headroom_fraction is an integer number of           *)
(* 1/HeadroomScale, and volume_to_distribute is returned in 1/HeadroomScale *)
(* ul, so that the products of Python are exact.                            *)

\* largest number of steps a recipe is given
MaxRecipeSteps == 3

\* headroom_fraction 0.1 is 1 in the model
HeadroomScale == 10

\* the value None of an argument that was not given
NotGiven == -100

\* step lists handed to the constructor and to add_steps, as their "vol" entries
StepLists == { <<>>, <<0>>, <<10>>, <<10, 11>> }

\* values assigned to volume_final
VolumeFinalChoices == {0, 8, 19, 20, 21, 30}

\* values given to headroom_fraction: -0.1, 0, 0.1, 0.5, 0.7, 1, 1.1
HeadroomChoices == {-1, 0, 1, 5, 7, 10, 11}

TimesNeededChoices == {1, 2}

\* Recipe.total_prepared_vol
total_prepared_vol_of(r) == SeqSum(r.steps)

\* Recipe.needs_empty_tube
needs_empty_tube_of(r) == Len(r.steps) > 1

\* the test of the volume_final setter
volume_final_accepted_mutant(r, v) == TRUE

volume_final_accepted(r, v) == v <= total_prepared_vol_of(r)

\* the volume_final setter: the fields it leaves
volume_final_set_mutant(r, v) == [r EXCEPT !.vol = v]

volume_final_set(r, v) ==
    IF volume_final_accepted(r, v) THEN [r EXCEPT !.vol = v] ELSE r

\* the test of the headroom_fraction setter
headroom_accepted(f) == 0 <= f /\ f <= HeadroomScale

\* the volume_final getter: [result, value]
volume_final_get(r) ==
    IF r.vol > 0
    THEN [result |-> "ok", value |-> r.vol]
    ELSE [result |-> "RecipeException", value |-> 0]

\* the volume_to_distribute getter: [result, value], value in 1/HeadroomScale ul
volume_to_distribute_mutant(r) ==
    IF r.vol > 0
    THEN [result |-> "ok",
          value  |-> HeadroomScale * total_prepared_vol_of(r)
                        * r.number_of_times_needed]
    ELSE [result |-> "RecipeException", value |-> 0]

volume_to_distribute(r) ==
    IF r.vol > 0
    THEN LET volume ==
                 IF needs_empty_tube_of(r)
                 THEN (HeadroomScale - r.headroom_fraction) * total_prepared_vol_of(r)
                         + r.headroom_fraction * r.vol
                 ELSE HeadroomScale * total_prepared_vol_of(r)
         IN  [result |-> "ok", value |-> volume * r.number_of_times_needed]
    ELSE [result |-> "RecipeException", value |-> 0]

recipe_unbuilt ==
    [constructed |-> FALSE, steps |-> <<>>, vol |-> 0,
     headroom_fraction |-> 0, number_of_times_needed |-> 0]

recipe_hist_idle == [added |-> <<>>, assigned |-> FALSE]

recipe_last_idle == [op |-> "none", arg |-> 0, result |-> "none", value |-> 0]

RecipeIdle ==
    /\ recipe = recipe_unbuilt
    /\ recipe_hist = recipe_hist_idle
    /\ recipe_last = recipe_last_idle

\* Recipe.__init__(steps, volume_final, headroom_fraction, number_of_times_needed)
RecipeInit ==
    /\ ~recipe.constructed
    /\ \E steps \in StepLists,
          volume_final \in VolumeFinalChoices \cup {NotGiven},
          headroom_fraction \in HeadroomChoices,
          number_of_times_needed \in TimesNeededChoices :
          LET r0 == [constructed |-> TRUE, steps |-> steps, vol |-> 0,
                     headroom_fraction |-> headroom_fraction,
                     number_of_times_needed |-> number_of_times_needed]
          IN  IF volume_final # NotGiven /\ ~volume_final_accepted(r0, volume_final)
              THEN \* the volume_final setter raises: no object is built
                   /\ recipe_last' = [op |-> "init", arg |-> volume_final,
                                      result |-> "RecipeException", value |-> 0]
                   /\ UNCHANGED <<recipe, recipe_hist>>
              ELSE /\ recipe' = IF volume_final # NotGiven
                                THEN volume_final_set(r0, volume_final)
                                ELSE r0
                   /\ recipe_hist' = [added |-> steps,
                                      assigned |-> volume_final # NotGiven]
                   /\ recipe_last' = [op |-> "init", arg |-> headroom_fraction,
                                      result |-> "ok", value |-> 0]
    /\ UNCHANGED <<allocVars, engineVars, stationVars, libVars, chooserVars, plateVars, mapperVars, bodyVars>>

\* Recipe.add_steps(steps)
AddSteps ==
    /\ recipe.constructed
    /\ \E steps \in StepLists :
          /\ Len(recipe.steps) + Len(steps) <= MaxRecipeSteps
          /\ recipe' = [recipe EXCEPT !.steps = @ \o steps]
          /\ recipe_hist' = [recipe_hist EXCEPT !.added = @ \o steps]
          /\ recipe_last' = [op |-> "add_steps", arg |-> Len(steps),
                             result |-> "ok", value |-> 0]
    /\ UNCHANGED <<allocVars, engineVars, stationVars, libVars, chooserVars, plateVars, mapperVars, bodyVars>>

\* recipe.volume_final = v
SetVolumeFinal ==
    /\ recipe.constructed
    /\ \E v \in VolumeFinalChoices :
          IF volume_final_accepted(recipe, v)
          THEN /\ recipe' = volume_final_set(recipe, v)
               /\ recipe_hist' = [recipe_hist EXCEPT !.assigned = TRUE]
               /\ recipe_last' = [op |-> "set_volume_final", arg |-> v,
                                  result |-> "ok", value |-> 0]
          ELSE /\ recipe' = volume_final_set(recipe, v)
               /\ recipe_last' = [op |-> "set_volume_final", arg |-> v,
                                  result |-> "RecipeException", value |-> 0]
               /\ UNCHANGED recipe_hist
    /\ UNCHANGED <<allocVars, engineVars, stationVars, libVars, chooserVars, plateVars, mapperVars, bodyVars>>

\* recipe.headroom_fraction = f
SetHeadroomFraction ==
    /\ recipe.constructed
    /\ \E f \in HeadroomChoices :
          IF headroom_accepted(f)
          THEN /\ recipe' = [recipe EXCEPT !.headroom_fraction = f]
               /\ recipe_last' = [op |-> "set_headroom_fraction", arg |-> f,
                                  result |-> "ok", value |-> 0]
          ELSE /\ recipe_last' = [op |-> "set_headroom_fraction", arg |-> f,
                                  result |-> "RecipeException", value |-> 0]
               /\ UNCHANGED recipe
    /\ UNCHANGED recipe_hist
    /\ UNCHANGED <<allocVars, engineVars, stationVars, libVars, chooserVars, plateVars, mapperVars, bodyVars>>

\* reading recipe.volume_final
GetVolumeFinal ==
    /\ recipe.constructed
    /\ recipe_last' = [op |-> "get_volume_final", arg |-> 0,
                       result |-> volume_final_get(recipe).result,
                       value |-> volume_final_get(recipe).value]
    /\ UNCHANGED <<recipe, recipe_hist>>
    /\ UNCHANGED <<allocVars, engineVars, stationVars, libVars, chooserVars, plateVars, mapperVars, bodyVars>>

\* reading recipe.volume_to_distribute
GetVolumeToDistribute ==
    /\ recipe.constructed
    /\ recipe_last' = [op |-> "get_volume_to_distribute", arg |-> 0,
                       result |-> volume_to_distribute(recipe).result,
                       value |-> volume_to_distribute(recipe).value]
    /\ UNCHANGED <<recipe, recipe_hist>>
    /\ UNCHANGED <<allocVars, engineVars, stationVars, libVars, chooserVars, plateVars, mapperVars, bodyVars>>
----------------------------------------------------------------------------
(* LibraryStation (stations/library.py): the two PlateManagers, the plate  *)
(* moves asked of the robot, and the start and join of a shake             *)

\* LibraryStation.__init__: heater_shaker_slot=1
HsdeckSlot == 1

\* LibraryStation.__init__: magdeck_slot=3
MagdeckSlot == 3

\* LibraryStation.__init__: self._tc_slot = 7
TcSlot == 7

\* the slots a plate is dropped in or transferred to
PlateSlots == {HsdeckSlot, MagdeckSlot, TcSlot}

\* self._reagent_plate_manager, self._sample_plate_manager
PlateManagers == {"reagent", "sample"}

\* the seconds arguments of shake
ShakeSeconds == {1, 2}

\* PlateManager.current_slot (getter): [result, value]
current_slot(slots, manager) ==
    IF slots[manager] = None
    THEN [result |-> "Exception", value |-> None]
    ELSE [result |-> "ok", value |-> slots[manager]]

\* the slot is kept
clear_slot_mutant(slots, manager) == slots

\* manager.current_slot = None
clear_slot(slots, manager) == [slots EXCEPT ![manager] = None]

\* the setter stores nothing
set_slot_mutant(slots, manager, slot) == slots

\* PlateManager.current_slot (setter)
set_slot(slots, manager, slot) == [slots EXCEPT ![manager] = slot]

\* _check_and_open_hs_if_needed
check_and_open_hs_if_needed(d, slot, rs) ==
    IF slot = HsdeckSlot /\ rs THEN [d EXCEPT !.hs_latch = "open"] ELSE d

\* _check_and_close_hs_if_needed
check_and_close_hs_if_needed(d, slot, rs) ==
    IF slot = HsdeckSlot /\ rs THEN [d EXCEPT !.hs_latch = "closed"] ELSE d

\* _check_and_open_tc_if_needed: the lid ends open; deactivate_lid,
\* deactivate_block and the pause leave the modelled state alone
check_and_open_tc_if_needed(d, slot, rs) ==
    IF slot = TcSlot /\ rs THEN [d EXCEPT !.tc_lid = "open"] ELSE d

\* _check_slot_is_accessible
check_slot_is_accessible(d, slot, rs) ==
    check_and_open_tc_if_needed(check_and_open_hs_if_needed(d, slot, rs), slot, rs)

\* _check_slot_is_workable
check_slot_is_workable(d, slot, rs) == check_and_close_hs_if_needed(d, slot, rs)

\* get_mix_seconds
get_mix_seconds(skip, requested_time) == IF skip THEN 1 ELSE requested_time

\* the requested seconds are kept after the wait
wait_reset_mutant(t) == t

\* shake_wait_for_finish: self._hs_requested_seconds = None
wait_reset(t) == [t EXCEPT !.requested_seconds = None]

\* shake_wait_for_finish: seconds_remaining
seconds_remaining(t, time) == t.requested_seconds - (time - t.start_time)

decks_idle == [hs_latch |-> "unknown", hs_shaking |-> FALSE, tc_lid |-> "unknown"]

hs_timer_idle == [start_time |-> None, requested_seconds |-> None]

\* started: a non-blocking shake ran and no wait completed since;
\* blocking: a blocking shake ran; waited: a wait completed
shake_hist_idle == [started |-> FALSE, blocking |-> FALSE, waited |-> FALSE,
                    skipped |-> FALSE]

\* call: the parity of the number of calls made
proto_last_idle ==
    [op |-> "none", manager |-> "none", slot |-> None, result |-> "none",
     value |-> None, requests |-> 0, delayed |-> FALSE, delay |-> 0,
     call |-> 0]

\* the record of a plate call
plate_record(op, manager, slot, result, value, requests) ==
    [op |-> op, manager |-> manager, slot |-> slot, result |-> result,
     value |-> value, requests |-> requests, delayed |-> FALSE, delay |-> 0,
     call |-> 1 - proto_last.call]

\* the record of a shake call; delay is in seconds (mins * 60)
shake_record(op, result, delayed, delay) ==
    [op |-> op, manager |-> "none", slot |-> None, result |-> result,
     value |-> None, requests |-> 0, delayed |-> delayed, delay |-> delay,
     call |-> 1 - proto_last.call]

PlateIdle ==
    /\ plate_slot = [m \in PlateManagers |-> None]
    /\ decks = decks_idle
    /\ hs_timer = hs_timer_idle
    /\ skip_mix = FALSE
    /\ shake_hist = shake_hist_idle
    /\ proto_last = proto_last_idle

\* PlateManager.current_slot read by the protocol
ReadSlot ==
    /\ \E manager \in PlateManagers :
          LET got == current_slot(plate_slot, manager)
          IN  proto_last' = plate_record("current_slot", manager, None,
                                         got.result, got.value, 0)
    /\ UNCHANGED <<plate_slot, decks, hs_timer, skip_mix, shake_hist>>
    /\ UNCHANGED <<allocVars, engineVars, stationVars, libVars, chooserVars, recipeVars, mapperVars, bodyVars>>

\* pick_reagent_plate, pick_sample_plate (_pick_managed_plate)
PickPlate ==
    /\ \E manager \in PlateManagers :
          LET got == current_slot(plate_slot, manager)
          IN  IF got.result # "ok"
              THEN \* the getter raises while the arguments are evaluated
                   /\ proto_last' = plate_record("pick", manager, None,
                                                 got.result, None, 0)
                   /\ UNCHANGED <<plate_slot, decks>>
              ELSE /\ decks' = check_slot_is_accessible(decks, got.value, run_stage)
                   /\ plate_slot' = clear_slot(plate_slot, manager)
                   /\ proto_last' = plate_record("pick", manager, got.value,
                                                 "ok", None, 1)
    /\ UNCHANGED <<hs_timer, skip_mix, shake_hist>>
    /\ UNCHANGED <<allocVars, engineVars, stationVars, libVars, chooserVars, recipeVars, mapperVars, bodyVars>>

\* drop_reagent_plate_in_slot, drop_sample_plate_in_slot (_drop_managed_plate)
DropPlate ==
    /\ \E manager \in PlateManagers, to_slot \in PlateSlots :
          /\ plate_slot' = set_slot(plate_slot, manager, to_slot)
          /\ decks' = check_slot_is_workable(
                          check_slot_is_accessible(decks, to_slot, run_stage),
                          to_slot, run_stage)
          /\ proto_last' = plate_record("drop", manager, to_slot, "ok", None, 1)
    /\ UNCHANGED <<hs_timer, skip_mix, shake_hist>>
    /\ UNCHANGED <<allocVars, engineVars, stationVars, libVars, chooserVars, recipeVars, mapperVars, bodyVars>>

\* transfer_sample_plate_internal(to_slot)
TransferInternal ==
    /\ \E to_slot \in PlateSlots :
          LET got == current_slot(plate_slot, "sample")
          IN  IF got.result # "ok"
              THEN /\ proto_last' = plate_record("transfer", "sample", to_slot,
                                                 got.result, None, 0)
                   /\ UNCHANGED <<plate_slot, decks>>
              ELSE /\ decks' = check_slot_is_workable(
                                  check_slot_is_accessible(
                                      check_slot_is_accessible(decks, got.value,
                                                               run_stage),
                                      to_slot, run_stage),
                                  to_slot, run_stage)
                   /\ plate_slot' = set_slot(plate_slot, "sample", to_slot)
                   /\ proto_last' = plate_record("transfer", "sample", to_slot,
                                                 "ok", None, 1)
    /\ UNCHANGED <<hs_timer, skip_mix, shake_hist>>
    /\ UNCHANGED <<allocVars, engineVars, stationVars, libVars, chooserVars, recipeVars, mapperVars, bodyVars>>

\* shake(speed_rpm, seconds, blocking); time.monotonic() is read once and
\* advances between the calls
Shake ==
    /\ \E seconds \in ShakeSeconds, blocking \in BOOLEAN :
          IF run_stage
          THEN LET mix == get_mix_seconds(skip_mix, seconds)
               IN  IF blocking
                   THEN /\ decks' = [decks EXCEPT !.hs_latch = "closed",
                                                  !.hs_shaking = FALSE]
                        /\ shake_hist' = [shake_hist EXCEPT !.blocking = TRUE]
                        /\ proto_last' = shake_record("shake", "ok", TRUE, mix)
                        /\ UNCHANGED hs_timer
                   ELSE /\ decks' = [decks EXCEPT !.hs_latch = "closed",
                                                  !.hs_shaking = TRUE]
                        /\ hs_timer' = [start_time |-> now,
                                        requested_seconds |-> mix]
                        /\ shake_hist' = [shake_hist EXCEPT !.started = TRUE,
                                                            !.skipped = FALSE]
                        /\ proto_last' = shake_record("shake_start", "ok", FALSE, 0)
          ELSE /\ proto_last' = shake_record("shake", "skipped", FALSE, 0)
               /\ shake_hist' = [shake_hist EXCEPT
                                    !.skipped = IF blocking THEN @ ELSE TRUE]
               /\ UNCHANGED <<decks, hs_timer>>
    /\ UNCHANGED <<plate_slot, skip_mix>>
    /\ UNCHANGED <<allocVars, engineVars, stationVars, libVars, chooserVars, recipeVars, mapperVars, bodyVars>>

\* shake_wait_for_finish()
ShakeWaitForFinish ==
    /\ IF run_stage
       THEN IF hs_timer.requested_seconds = None \/ hs_timer.start_time = None
            THEN /\ proto_last' = shake_record("shake_wait_for_finish",
                                               "Exception", FALSE, 0)
                 /\ shake_hist' = [shake_hist EXCEPT !.skipped = FALSE]
                 /\ UNCHANGED <<decks, hs_timer>>
            ELSE /\ proto_last' = shake_record("shake_wait_for_finish", "ok", TRUE,
                                               seconds_remaining(hs_timer, now))
                 /\ decks' = [decks EXCEPT !.hs_shaking = FALSE]
                 /\ hs_timer' = wait_reset(hs_timer)
                 /\ shake_hist' = [shake_hist EXCEPT !.started = FALSE,
                                                     !.waited = TRUE,
                                                     !.skipped = FALSE]
       ELSE /\ proto_last' = shake_record("shake_wait_for_finish", "skipped",
                                          FALSE, 0)
            /\ shake_hist' = [shake_hist EXCEPT !.skipped = FALSE]
            /\ UNCHANGED <<decks, hs_timer>>
    /\ UNCHANGED <<plate_slot, skip_mix>>
    /\ UNCHANGED <<allocVars, engineVars, stationVars, libVars, chooserVars, recipeVars, mapperVars, bodyVars>>

\* self.run_stage(stage) reaches the stage the run starts at
StartRunning ==
    /\ ~run_stage
    /\ run_stage' \in run_stage_results(run_stage) \ {FALSE}
    /\ UNCHANGED <<batch, skip_ledger>>
    /\ UNCHANGED <<allocVars, engineVars, libVars, chooserVars, recipeVars, plateVars, mapperVars, bodyVars>>


----------------------------------------------------------------------------
(* LibraryStation.body (station.py) over anneal_rna, first_strand_cdna,    *)
(* amplify_cdna, tagment_pcr_amplicons and post_tagmentation_cleanup       *)
(* (stations/library.py): the calls that touch the plate trackers, the     *)
(* decks and the shaker, in program order                                  *)

\* LibraryStation.__init__: input_plate_slot=1
InputPlateSlot == 1

\* LibraryStation.__init__: wash_plate_slot=9
WashPlateSlot == 9

\* the seconds of every shake of the body: shake(1000, 60, ...)
BodyShakeSeconds == 60

\* body_pc of a body stopped by an exception
BodyAborted == 0

\* one call of the body
body_op(op, manager, slot) == [op |-> op, manager |-> manager, slot |-> slot]

\* shake(1000, 60, blocking=False), the plate taken off the magdeck,
\* shake_wait_for_finish(), the sample plate to the thermal cycler
shake_trash_join ==
    << body_op("shake_start", "none", None),
       body_op("trash", "none", MagdeckSlot),
       body_op("wait", "none", None),
       body_op("transfer", "sample", TcSlot),
       body_op("thermal", "none", None) >>

\* shake(1000, 60, blocking=False), pick_reagent_plate(),
\* shake_wait_for_finish()
shake_pick_join ==
    << body_op("shake_start", "none", None),
       body_op("pick", "reagent", None),
       body_op("wait", "none", None) >>

anneal_rna ==
    << body_op("load", "none", InputPlateSlot),
       body_op("drop", "sample", HsdeckSlot),
       body_op("plate", "sample", None) >> \o shake_trash_join

first_strand_cdna ==
    << body_op("transfer", "sample", HsdeckSlot),
       body_op("drop", "reagent", MagdeckSlot),
       body_op("distribute", "FS Mix", None) >>
    \o shake_pick_join
    \o << body_op("transfer", "sample", TcSlot),
          body_op("thermal", "none", None) >>

amplify_cdna ==
    << body_op("transfer", "sample", MagdeckSlot),
       body_op("put", "none", HsdeckSlot),
       body_op("set", "sample", HsdeckSlot),
       body_op("plate", "sample", None),
       body_op("plate", "sample", None) >> \o shake_trash_join

tagment_pcr_amplicons ==
    << body_op("transfer", "sample", MagdeckSlot),
       body_op("put", "none", HsdeckSlot),
       body_op("set", "sample", HsdeckSlot),
       body_op("plate", "sample", None) >> \o shake_trash_join

\* distribute_dirty("TWB", self._mag_plate), the plate shaken on the
\* heater-shaker and brought back to the magnets
wash_round ==
    << body_op("distribute", "TWB", None),
       body_op("transfer", "sample", HsdeckSlot),
       body_op("shake", "none", None),
       body_op("transfer", "sample", MagdeckSlot) >>

post_tagmentation_cleanup ==
    << body_op("drop", "reagent", MagdeckSlot),
       body_op("transfer", "sample", HsdeckSlot),
       body_op("distribute", "ST2", None) >>
    \o shake_pick_join
    \o << body_op("transfer", "sample", MagdeckSlot),
          body_op("put", "none", WashPlateSlot) >>
    \o wash_round \o wash_round

\* CovidseqBaseStation.body
body == anneal_rna \o first_strand_cdna \o amplify_cdna
            \o tagment_pcr_amplicons \o post_tagmentation_cleanup

\* Recipe.use_wash_plate of the recipes of recipes.json: the wash buffer is
\* prepared in the wash plate, every other mix in the reagent plate
use_wash_plate(recipe_name) == recipe_name = "TWB"

\* the tracker a call reads, "none" when it reads none: _pick_managed_plate,
\* transfer_sample_plate_internal, current_plate, get_recipe_mts
tracker_read(o) ==
    IF o.op \in {"pick", "transfer", "plate"} THEN o.manager
    ELSE IF o.op = "distribute" /\ ~use_wash_plate(o.manager) THEN "reagent"
    ELSE "none"

\* the decks after a call that moves a plate
decks_after(d, o, from_slot, rs) ==
    CASE o.op = "load" ->
            \* _check_slot_is_accessible(input), then the input plate moved
            \* to the magdeck when it was loaded on the heater-shaker
            IF ~rs THEN d
            ELSE LET opened == check_slot_is_accessible(d, InputPlateSlot, rs)
                 IN  IF InputPlateSlot = HsdeckSlot
                     THEN check_slot_is_workable(
                              check_slot_is_accessible(
                                  check_slot_is_accessible(opened, InputPlateSlot, rs),
                                  MagdeckSlot, rs),
                              MagdeckSlot, rs)
                     ELSE opened
      [] o.op \in {"drop", "put"} ->
            check_slot_is_workable(check_slot_is_accessible(d, o.slot, rs),
                                   o.slot, rs)
      [] o.op = "pick" -> check_slot_is_accessible(d, from_slot, rs)
      [] o.op = "trash" -> check_slot_is_accessible(d, o.slot, rs)
      [] o.op = "transfer" ->
            check_slot_is_workable(
                check_slot_is_accessible(
                    check_slot_is_accessible(d, from_slot, rs), o.slot, rs),
                o.slot, rs)
      [] o.op = "thermal" -> IF rs THEN [d EXCEPT !.tc_lid = "closed"] ELSE d
      [] OTHER -> d

\* the trackers after a call
slots_after(slots, o) ==
    CASE o.op \in {"drop", "set", "transfer"} -> set_slot(slots, o.manager, o.slot)
      [] o.op = "pick" -> clear_slot(slots, o.manager)
      [] OTHER -> slots

BodyIdle == body_pc = 1

\* a call that moves a plate or reads a tracker
BodyPlateStep ==
    /\ body_pc \in 1..Len(body)
    /\ LET o == body[body_pc]
           read == tracker_read(o)
           who == IF read = "none" THEN o.manager ELSE read
           got == IF read = "none" THEN [result |-> "ok", value |-> None]
                  ELSE current_slot(plate_slot, read)
       IN  /\ o.op \notin {"shake_start", "shake", "wait"}
           /\ IF got.result # "ok"
              THEN /\ proto_last' = plate_record(o.op, who, o.slot, got.result,
                                                 None, 0)
                   /\ body_pc' = BodyAborted
                   /\ UNCHANGED <<plate_slot, decks>>
              ELSE /\ proto_last' = plate_record(o.op, who, o.slot, "ok",
                                                 got.value, 1)
                   /\ decks' = decks_after(decks, o, got.value, run_stage)
                   /\ plate_slot' = slots_after(plate_slot, o)
                   /\ body_pc' = body_pc + 1
    /\ UNCHANGED <<hs_timer, skip_mix, shake_hist>>
    /\ UNCHANGED <<allocVars, engineVars, stationVars, libVars, chooserVars, recipeVars, mapperVars>>

\* shake(1000, 60, blocking) of the body
BodyShake ==
    /\ body_pc \in 1..Len(body)
    /\ body[body_pc].op \in {"shake_start", "shake"}
    /\ LET blocking == body[body_pc].op = "shake"
           mix == get_mix_seconds(skip_mix, BodyShakeSeconds)
       IN  IF run_stage
           THEN IF blocking
                THEN /\ decks' = [decks EXCEPT !.hs_latch = "closed",
                                               !.hs_shaking = FALSE]
                     /\ shake_hist' = [shake_hist EXCEPT !.blocking = TRUE]
                     /\ proto_last' = shake_record("shake", "ok", TRUE, mix)
                     /\ UNCHANGED hs_timer
                ELSE /\ decks' = [decks EXCEPT !.hs_latch = "closed",
                                               !.hs_shaking = TRUE]
                     /\ hs_timer' = [start_time |-> now,
                                     requested_seconds |-> mix]
                     /\ shake_hist' = [shake_hist EXCEPT !.started = TRUE,
                                                         !.skipped = FALSE]
                     /\ proto_last' = shake_record("shake_start", "ok", FALSE, 0)
           ELSE /\ proto_last' = shake_record("shake", "skipped", FALSE, 0)
                /\ shake_hist' = [shake_hist EXCEPT
                                     !.skipped = IF blocking THEN @ ELSE TRUE]
                /\ UNCHANGED <<decks, hs_timer>>
    /\ body_pc' = body_pc + 1
    /\ UNCHANGED <<plate_slot, skip_mix>>
    /\ UNCHANGED <<allocVars, engineVars, stationVars, libVars, chooserVars, recipeVars, mapperVars>>

\* shake_wait_for_finish() of the body
BodyWait ==
    /\ body_pc \in 1..Len(body)
    /\ body[body_pc].op = "wait"
    /\ IF run_stage
       THEN IF hs_timer.requested_seconds = None \/ hs_timer.start_time = None
            THEN /\ proto_last' = shake_record("shake_wait_for_finish",
                                               "Exception", FALSE, 0)
                 /\ shake_hist' = [shake_hist EXCEPT !.skipped = FALSE]
                 /\ body_pc' = BodyAborted
                 /\ UNCHANGED <<decks, hs_timer>>
            ELSE /\ proto_last' = shake_record("shake_wait_for_finish", "ok", TRUE,
                                               seconds_remaining(hs_timer, now))
                 /\ decks' = [decks EXCEPT !.hs_shaking = FALSE]
                 /\ hs_timer' = wait_reset(hs_timer)
                 /\ shake_hist' = [shake_hist EXCEPT !.started = FALSE,
                                                     !.waited = TRUE,
                                                     !.skipped = FALSE]
                 /\ body_pc' = body_pc + 1
       ELSE /\ proto_last' = shake_record("shake_wait_for_finish", "skipped",
                                          FALSE, 0)
            /\ shake_hist' = [shake_hist EXCEPT !.skipped = FALSE]
            /\ body_pc' = body_pc + 1
            /\ UNCHANGED <<decks, hs_timer>>
    /\ UNCHANGED <<plate_slot, skip_mix>>
    /\ UNCHANGED <<allocVars, engineVars, stationVars, libVars, chooserVars, recipeVars, mapperVars>>
----------------------------------------------------------------------------
(* VerticalMapper (vertical_mapper.py): the wells the samples of a run are *)
(* mapped to; a well is << c, r >>, the well self._columns[c][r]           *)

\* COLUMN_HEIGHT
ColumnHeight == 8

\* the largest num_samples asked of get_map_for_samples
MaxMapSamples == 66

\* len(self._columns) of the labwares mapped
MapperRowLengths == {2, 3, 8}

\* len(self._columns[0]) of the labwares mapped
MapperColumnLengths == {8, 9, 12}

\* the bounds of a Python slice [start:stop] of a list of length len
slice_bound(len, i) == IF i < 0 THEN Max(len + i, 0) ELSE Min(i, len)

\* the indices (from 0) a Python slice [start:stop] selects, in order
slice_indices(len, start, stop) ==
    LET lo == slice_bound(len, start)
        hi == slice_bound(len, stop)
    IN  [k \in 1..Max(hi - lo, 0) |-> lo + k - 1]

\* list[:n], n >= 0
take(s, n) == SubSeq(s, 1, Min(n, Len(s)))

\* _calc_row_offset
calc_row_offset(shape, column_height) ==
    (shape.column_length - column_height) \div 2

\* _calc_column_offset
calc_column_offset(shape, row_length) ==
    (shape.row_length - row_length) \div 2

\* get_map_for_samples: selected_wells
selected_wells(shape, cols_offset) ==
    LET cols == slice_indices(shape.row_length, cols_offset, shape.row_length)
        rows == slice_indices(shape.column_length,
                              calc_row_offset(shape, ColumnHeight),
                              calc_row_offset(shape, ColumnHeight) + ColumnHeight)
    IN  Flatten([j \in 1..Len(cols) |->
                    [i \in 1..Len(rows) |-> << cols[j], rows[i] >>]])

\* get_map_for_samples(num_samples): [result, wells]
get_map_for_samples(shape, num_samples) ==
    LET samples_cols == Ceil(num_samples, ColumnHeight)
        cols_offset == calc_column_offset(shape, samples_cols)
    IN  [result |-> "ok",
         wells  |-> take(selected_wells(shape, cols_offset), num_samples)]

vm_last_idle == [num_samples |-> 0, result |-> "none", wells |-> <<>>]

MapperIdle ==
    /\ vm = [row_length |-> ColumnHeight, column_length |-> ColumnHeight]
    /\ vm_last = vm_last_idle

\* VerticalMapper.get_map_for_samples(num_samples)
GetMapForSamples ==
    /\ \E num_samples \in 0..MaxMapSamples :
          LET got == get_map_for_samples(vm, num_samples)
          IN  vm_last' = [num_samples |-> num_samples, result |-> got.result,
                          wells |-> got.wells]
    /\ UNCHANGED vm
    /\ UNCHANGED <<allocVars, engineVars, stationVars, libVars, chooserVars, recipeVars, plateVars, bodyVars>>

----------------------------------------------------------------------------
(* Specifications *)

EngineIdle ==
    /\ pip = [p \in PipetteIds |-> [current_volume |-> 0, has_tip |-> FALSE]]
    /\ tubes = [t \in TubeIds |-> 0]
    /\ tm = tm_init
    /\ xfer = xfer_idle
    /\ hist = hist_idle
    /\ pc = "idle"
    /\ ret = "idle"
    /\ run_stage = TRUE
    /\ batch = batch_idle
    /\ skip_ledger = 0

LibIdle ==
    /\ lib = lib_idle
    /\ mts = 0
    /\ mts_skip = 0

InitAlloc ==
    /\ rq_last = rq_idle
    /\ samples_per_row \in SamplesVectors
    /\ num_rows \in {1, SamplesLen}
    /\ assigned_columns = <<>>
    /\ rp_last = [name |-> 0, vol |-> 0, avail |-> 0, free |-> 0, ncols |-> 0, result |-> "none"]
    /\ EngineIdle
    /\ LibIdle
    /\ ChooserIdle
    /\ RecipeIdle
    /\ MapperIdle
    /\ BodyIdle
    /\ PlateIdle

NextAlloc == AssignReagent

SpecAlloc == InitAlloc /\ [][NextAlloc]_vars

\* the allocator of a plate of one sample per row, 8-row or single-row,
\* assigned and queried in any order
InitQuery ==
    /\ rq_last = rq_idle
    /\ samples_per_row = ColumnWise(SamplesLen)
    /\ num_rows \in {1, SamplesLen}
    /\ assigned_columns = <<>>
    /\ rp_last = [name |-> 0, vol |-> 0, avail |-> 0, free |-> 0, ncols |-> 0, result |-> "none"]
    /\ EngineIdle
    /\ LibIdle
    /\ ChooserIdle
    /\ RecipeIdle
    /\ MapperIdle
    /\ BodyIdle
    /\ PlateIdle

NextQuery ==
    \/ AssignReagent
    \/ Query

SpecQuery == InitQuery /\ [][NextQuery]_vars

\* one run of the reagent station: a fill batch or a prepare, from loaded tubes
InitTM ==
    /\ AllocIdle
    /\ pip = [p \in PipetteIds |-> [current_volume |-> 0, has_tip |-> FALSE]]
    /\ tubes = [t \in TubeIds |-> 0]
    /\ tm = tm_init
    /\ xfer = xfer_idle
    /\ hist = hist_idle
    /\ pc = "start"
    /\ ret = "idle"
    /\ run_stage = TRUE
    /\ batch = batch_idle
    /\ skip_ledger = 0
    /\ LibIdle
    /\ ChooserIdle
    /\ RecipeIdle
    /\ MapperIdle
    /\ BodyIdle
    /\ PlateIdle

NextTM ==
    \/ FillBegin
    \/ FillStep
    \/ FillEnd
    \/ PrepBegin
    \/ PrepStep
    \/ PrepMix
    \/ TransferStep
    \/ MixStep
    \/ X_Final

SpecTM == InitTM /\ [][NextTM]_vars

\* one distribute_clean / distribute_dirty call of the library station
InitLib ==
    /\ AllocIdle
    /\ pip = [p \in PipetteIds |-> [current_volume |-> 0, has_tip |-> FALSE]]
    /\ tubes = [t \in TubeIds |-> 0]
    /\ tm = tm_init
    /\ xfer = xfer_idle
    /\ hist = hist_idle
    /\ pc = "lib_start"
    /\ ret = "idle"
    /\ run_stage = TRUE
    /\ batch = batch_idle
    /\ skip_ledger = 0
    /\ LibIdle
    /\ ChooserIdle
    /\ RecipeIdle
    /\ MapperIdle
    /\ BodyIdle
    /\ PlateIdle

NextLib ==
    \/ DistributeBegin
    \/ DistributeDest
    \/ DistributeCycle
    \/ DistributeDestEnd
    \/ DistributeEnd

SpecLib == InitLib /\ [][NextLib]_vars


\* a PipetteChooser from its construction: register and get_pipette in any order
InitChooser ==
    /\ AllocIdle
    /\ EngineIdle
    /\ LibIdle
    /\ ChooserIdle
    /\ RecipeIdle
    /\ MapperIdle
    /\ BodyIdle
    /\ PlateIdle

NextChooser ==
    \/ Register
    \/ GetPipette
    \/ GetMaxVolume
    \/ GetAirGap

SpecChooser == InitChooser /\ [][NextChooser]_vars

\* a PipetteChooser from its construction, with the clock running
NextUnstick ==
    \/ RegisterTimed
    \/ GetPipette
    \/ NeedsUnstick
    \/ Tick

SpecUnstick == InitChooser /\ [][NextUnstick]_vars

\* one Recipe from its construction on
InitRecipe ==
    /\ AllocIdle
    /\ EngineIdle
    /\ LibIdle
    /\ ChooserIdle
    /\ RecipeIdle
    /\ MapperIdle
    /\ BodyIdle
    /\ PlateIdle

NextRecipe ==
    \/ RecipeInit
    \/ AddSteps
    \/ SetVolumeFinal
    \/ SetHeadroomFraction
    \/ GetVolumeFinal
    \/ GetVolumeToDistribute

SpecRecipe == InitRecipe /\ [][NextRecipe]_vars

\* the engine at rest in a stage that runs or is skipped
EngineAtStage ==
    /\ pip = [p \in PipetteIds |-> [current_volume |-> 0, has_tip |-> FALSE]]
    /\ tubes = [t \in TubeIds |-> 0]
    /\ tm = tm_init
    /\ xfer = xfer_idle
    /\ hist = hist_idle
    /\ pc = "idle"
    /\ ret = "idle"
    /\ run_stage \in BOOLEAN
    /\ batch = batch_idle
    /\ skip_ledger = 0

\* the plates of a library run moved in any order, from a stage that runs
\* or one that is skipped
InitPlate ==
    /\ AllocIdle
    /\ EngineAtStage
    /\ LibIdle
    /\ ChooserIdle
    /\ RecipeIdle
    /\ MapperIdle
    /\ BodyIdle
    /\ PlateIdle

NextPlate ==
    \/ ReadSlot
    \/ PickPlate
    \/ DropPlate
    \/ TransferInternal
    \/ StartRunning

SpecPlate == InitPlate /\ [][NextPlate]_vars

\* shakes started and joined in any order while the clock runs, with and
\* without skip_mix
InitShake ==
    /\ AllocIdle
    /\ EngineAtStage
    /\ LibIdle
    /\ ChooserIdle
    /\ RecipeIdle
    /\ MapperIdle
    /\ BodyIdle
    /\ plate_slot = [m \in PlateManagers |-> None]
    /\ decks = decks_idle
    /\ hs_timer = hs_timer_idle
    /\ skip_mix \in BOOLEAN
    /\ shake_hist = shake_hist_idle
    /\ proto_last = proto_last_idle

NextShake ==
    \/ Shake
    \/ ShakeWaitForFinish
    \/ StartRunning
    \/ Tick

SpecShake == InitShake /\ [][NextShake]_vars

\* a mapper built on a labware of any of the shapes, asked for any number of
\* samples
InitMapper ==
    /\ AllocIdle
    /\ EngineIdle
    /\ LibIdle
    /\ ChooserIdle
    /\ RecipeIdle
    /\ PlateIdle
    /\ vm \in [row_length : MapperRowLengths, column_length : MapperColumnLengths]
    /\ vm_last = vm_last_idle
    /\ BodyIdle

NextMapper == GetMapForSamples

SpecMapper == InitMapper /\ [][NextMapper]_vars

\* the allocator of a plate of one sample, of MaxSamples samples, and of
\* their mirror images, assigned and queried in any order
InitWells ==
    /\ rq_last = rq_idle
    /\ samples_per_row \in { ColumnWise(n) : n \in {1, MaxSamples} }
                              \cup { Reversed(ColumnWise(n)) : n \in {1, MaxSamples} }
    /\ num_rows \in {1, SamplesLen}
    /\ assigned_columns = <<>>
    /\ rp_last = [name |-> 0, vol |-> 0, avail |-> 0, free |-> 0, ncols |-> 0, result |-> "none"]
    /\ EngineIdle
    /\ LibIdle
    /\ ChooserIdle
    /\ RecipeIdle
    /\ PlateIdle
    /\ MapperIdle
    /\ BodyIdle

NextWells ==
    \/ AssignReagent
    \/ Query

SpecWells == InitWells /\ [][NextWells]_vars

\* the transfer engine used call by call, the pipette with or without a tip
\* when the calls begin
InitCalls ==
    /\ AllocIdle
    /\ pip \in { [p \in PipetteIds |-> [current_volume |-> 0, has_tip |-> h]] :
                    h \in BOOLEAN }
    /\ tubes = [t \in TubeIds |-> 0]
    /\ tm = tm_init
    /\ xfer = xfer_idle
    /\ hist = hist_idle
    /\ pc = "idle"
    /\ ret = "idle"
    /\ run_stage = TRUE
    /\ batch = batch_idle
    /\ skip_ledger = 0
    /\ LibIdle
    /\ ChooserIdle
    /\ RecipeIdle
    /\ PlateIdle
    /\ MapperIdle
    /\ BodyIdle

NextCalls ==
    \/ SetupTransfer
    \/ SetupMix
    \/ SetupOntoBeads
    \/ CallTransfer
    \/ CallMix
    \/ TransferStep
    \/ MixStep
    \/ X_Final

SpecCalls == InitCalls /\ [][NextCalls]_vars

\* the body run from its first call, resumed at any stage or run whole, with
\* and without skip_mix, while the clock runs
InitBody ==
    /\ AllocIdle
    /\ EngineAtStage
    /\ LibIdle
    /\ ChooserIdle
    /\ RecipeIdle
    /\ MapperIdle
    /\ plate_slot = [m \in PlateManagers |-> None]
    /\ decks = decks_idle
    /\ hs_timer = hs_timer_idle
    /\ skip_mix \in BOOLEAN
    /\ shake_hist = shake_hist_idle
    /\ proto_last = proto_last_idle
    /\ BodyIdle

NextBody ==
    \/ BodyPlateStep
    \/ BodyShake
    \/ BodyWait
    \/ StartRunning
    \/ Tick

SpecBody == InitBody /\ [][NextBody]_vars
----------------------------------------------------------------------------
(* Claims about the allocator, checked under SpecAlloc *)

LastAssigned == assigned_columns[Len(assigned_columns)]

AllWells(a) == Flatten(a.colvols)

\* C4: volume conservation - after a successful assign_reagent the per-well
\* volumes placed for the reagent (the stored positive volumes, and every
\* well of its columns) sum to sum(samples_per_row) x volume_with_overhead,
\* for 8-row and single-row containers alike.
C4_VolumeConservation ==
    rp_last.result = "ok" =>
        /\ SeqSum(LastAssigned.volumes) = SeqSum(samples_per_row) * rp_last.vol * VolScale
        /\ SeqSum(AllWells(LastAssigned)) = SeqSum(samples_per_row) * rp_last.vol * VolScale

\* a reagent packed into several columns with rows of unequal totals
C4_Witness ==
    /\ rp_last.result = "ok"
    /\ num_rows = SamplesLen
    /\ Len(LastAssigned.columns) >= 2
    /\ Len(LastAssigned.volumes) < Len(AllWells(LastAssigned))

\* C5: capacity - every well volume assigned to any reagent is at most
\* well_volume_limit.
C5_Capacity ==
    \A i \in 1..Len(assigned_columns) :
        \A k \in 1..Len(AllWells(assigned_columns[i])) :
            AllWells(assigned_columns[i])[k] <= WellVolumeLimit * VolScale

\* a reagent whose row total exceeds the limit, split over three columns
C5_Witness ==
    \E i \in 1..Len(assigned_columns) :
        /\ Len(assigned_columns[i].columns) = 3
        /\ \E k \in 1..Len(AllWells(assigned_columns[i])) :
               2 * AllWells(assigned_columns[i])[k] > WellVolumeLimit * VolScale

ColumnSet(a) == { a.columns[j] : j \in 1..Len(a.columns) }

\* C6: allocation disjointness - columns of distinct reagents are disjoint,
\* each reagent's columns are consecutive, the first reagent starts at
\* column 0, each later reagent starts right after the previous one, and
\* every assigned column index is below num_cols.
C6_Disjointness ==
    /\ \A i, j \in 1..Len(assigned_columns) :
           i # j => ColumnSet(assigned_columns[i]) \cap ColumnSet(assigned_columns[j]) = {}
    /\ \A i \in 1..Len(assigned_columns) :
           LET c == assigned_columns[i].columns
           IN  /\ Len(c) >= 1
               /\ \A j \in 1..Len(c) : c[j] = c[1] + j - 1 /\ c[j] < NumCols
               /\ c[1] = IF i = 1 THEN 0
                         ELSE LET p == assigned_columns[i - 1].columns IN p[Len(p)] + 1

\* two reagents, the first one on more than one column
C6_Witness ==
    /\ Len(assigned_columns) = 2
    /\ Len(assigned_columns[1].columns) = 2
    /\ assigned_columns[2].columns[1] = 2

\* C7 (the claim as stated): assign_reagent of a new name raises the
\* columns-exhausted error exactly when free + num_columns > num_cols, so a
\* reagent ending on the last column of the container is accepted.
C7_ExhaustedExactly ==
    rp_last.result \in {"ok", "ColumnsExhausted"} =>
        (rp_last.result = "ColumnsExhausted" <=> rp_last.free + rp_last.ncols > NumCols)


\* the call of this step names a reagent that was assigned before it
NameAlreadyAssigned ==
    \E i \in 1..Len(assigned_columns) : assigned_columns[i].name = rp_last'.name

\* C21: assign_reagent with a name that is already assigned raises the
\* duplicate-reagent error and leaves the allocator unchanged - the records
\* of every reagent (columns and volumes), the list of assigned names and
\* the next free column index are the ones before the call.
C21_DuplicateRejected ==
    [][ /\ NameAlreadyAssigned => rp_last'.result = "DuplicateReagent"
        /\ rp_last'.result = "DuplicateReagent" =>
              /\ NameAlreadyAssigned
              /\ assigned_columns' = assigned_columns
              /\ [i \in 1..Len(assigned_columns') |-> assigned_columns'[i].name]
                    = [i \in 1..Len(assigned_columns) |-> assigned_columns[i].name]
              /\ SeqSum([i \in 1..Len(assigned_columns') |->
                            Len(assigned_columns'[i].columns)])
                    = SeqSum([i \in 1..Len(assigned_columns) |->
                            Len(assigned_columns[i].columns)]) ]_vars

\* the first of two assigned reagents was assigned again, with another volume
C21_Witness ==
    /\ rp_last.result = "DuplicateReagent"
    /\ Len(assigned_columns) = 2
    /\ rp_last.name = assigned_columns[1].name
    /\ rp_last.vol = 250
    /\ Len(assigned_columns[1].columns) = 1

\* C22: the allocator is append-only - an assign_reagent call, accepted or
\* rejected, leaves the record of every reagent assigned before it as it
\* was: its columns, its per-well dispensed volumes and its available
\* volumes.
C22_AppendOnly ==
    [][ /\ Len(assigned_columns') >= Len(assigned_columns)
        /\ \A i \in 1..Len(assigned_columns) :
              /\ assigned_columns'[i].name = assigned_columns[i].name
              /\ assigned_columns'[i].columns = assigned_columns[i].columns
              /\ assigned_columns'[i].colvols = assigned_columns[i].colvols
              /\ assigned_columns'[i].volumes = assigned_columns[i].volumes
              /\ assigned_columns'[i].available_volumes
                    = assigned_columns[i].available_volumes
              /\ assigned_columns'[i].mts_8_channel
                    = assigned_columns[i].mts_8_channel ]_vars

\* a second reagent was recorded after one whose available volumes are a
\* fraction of its dispensed ones
C22_Witness ==
    /\ rp_last.result = "ok"
    /\ Len(assigned_columns) = 2
    /\ rp_last.name = assigned_columns[2].name
    /\ assigned_columns[1].available_volumes # assigned_columns[1].volumes

\* the total volume of each row for the last call, scaled
RowTotals ==
    IF num_rows = 1
    THEN << rp_last.vol * SeqSum(samples_per_row) * VolScale >>
    ELSE [i \in 1..SamplesLen |-> samples_per_row[i] * rp_last.vol * VolScale]

\* what the wells of row i left of column j hold
PlacedBefore(a, i, j) == SeqSum([k \in 1..(j - 1) |-> a.colvols[k][i]])

C24_UsableVolume ==
    rp_last.result = "ok" =>
        LET a == LastAssigned
        IN  /\ Len(a.mts_8_channel) = Len(a.columns)
            /\ \A j \in 1..Len(a.columns) :
                  IF rp_last.avail = 0
                  THEN a.mts_8_channel[j] = a.colvols[j][1]
                  ELSE a.mts_8_channel[j] * rp_last.vol
                           = a.colvols[j][1] * rp_last.avail

\* nine samples, 120 dispensed and 100 available per sample: three columns
\* whose first-row wells hold 80 each, 66.67 of it available
C24_Witness ==
    /\ rp_last.result = "ok"
    /\ rp_last.vol = 120
    /\ rp_last.avail = 100
    /\ samples_per_row = ColumnWise(9)
    /\ num_rows = SamplesLen
    /\ Len(LastAssigned.mts_8_channel) = 3
    /\ 3 * LastAssigned.mts_8_channel[3] = 200 * VolScale

\* the reagent named by the query of this step is assigned
QueriedAssigned ==
    \E i \in 1..Len(assigned_columns) : assigned_columns[i].name = rq_last'.name

\* C25 (the claim as stated): every allocator query fails with
\* ReagentPlateException when it is made before the reagent has been
\* assigned, and succeeds once the reagent is assigned.
C25_QueriesNeedAssignment ==
    [][ rq_last' # rq_last =>
            IF QueriedAssigned
            THEN rq_last'.result = "ok"
            ELSE rq_last'.result = "ReagentPlateException" ]_vars

\* the volume the packing placed in the well << column, row >> of an
\* assignment, 0 outside its columns
PlacedAt(a, well) ==
    IF \E j \in 1..Len(a.columns) : a.columns[j] = well[1]
    THEN a.colvols[CHOOSE j \in 1..Len(a.columns) : a.columns[j] = well[1]][well[2]]
    ELSE 0

\* the answer to the last query is one of get_wells_with_volume
WellsAnswered == rq_last.op = "get_wells_with_volume" /\ rq_last.result = "ok"

\* C34 (the claim as stated): for every samples_per_row vector
\* get_wells_with_volume pairs each well with the volume the packing placed
\* in it, and no well that received a positive volume is missing.
C34_WellsPairing ==
    WellsAnswered =>
        LET a == assigned_columns[reagent_index(assigned_columns, rq_last.name)]
            pairs == rq_last.value
        IN  /\ \A k \in 1..Len(pairs) : pairs[k][2] = PlacedAt(a, pairs[k][1])
            /\ \A j \in 1..Len(a.columns) : \A r \in 1..Len(a.colvols[j]) :
                   a.colvols[j][r] > 0 =>
                       \E k \in 1..Len(pairs) :
                           pairs[k] = << << a.columns[j], r >>, a.colvols[j][r] >>
----------------------------------------------------------------------------
(* Claims about the transfer engine and the reagent station, checked under SpecTM *)

\* the volumes dispensed by the cycles of the running transfer call
DispensedAmounts == [k \in 1..Len(hist.dispensed) |-> hist.dispensed[k][2]]

\* a batch set up the way fill_wells / fill_shared_plate set it up
AsFillWells ==
    /\ batch.kind = "fill"
    /\ tm.total_set
    /\ ~mix_enabled(tm)
    /\ ~batch.change_tip
    /\ ~batch.drop_tip_after

\* C1 (the claim as stated): skip equivalence - after a fill_wells /
\* fill_shared_plate batch in which every destination was executed, the
\* source tube's tracked volume equals the volume it has after the same
\* batch with every destination skipped, whatever the disposal volume.
C1_SkipEquivalence ==
    (pc = "fill_done" /\ AsFillWells /\ batch.skipped = 0) => tubes["tube"] = skip_ledger

\* the ledger of a fresh, fully executed prepare of the recipe
prepared_ledger(steps, n) ==
    [ t \in TubeIds |-> IF t = "tube" THEN total_prepared_vol(steps) * n ELSE 0 ]

\* C2 (the claim as stated): resume replay - when prepare of a multi-step
\* recipe is over, executed or skipped, every reagent tube is reduced by
\* step volume x num_samples and the mix tube holds the sum of those amounts.
C2_ResumeReplay ==
    (pc = "prep_done" /\ needs_empty_tube(batch.steps)) =>
        tubes = prepared_ledger(batch.steps, batch.num_samples)

\* C8: a transfer call delivers exactly the requested volume - every dispense
\* is min(remaining, pipette_max_volume - air_gap - disposal_volume), and when
\* the call returns the dispenses sum to the requested volume and the
\* destination's tracked volume has risen by exactly that volume.
C8_ExactDelivery ==
    pc \in TransferPcs =>
        /\ \A k \in 1..Len(hist.dispensed) :
               hist.dispensed[k][2] =
                   Min(hist.dispensed[k][1], tm.max_volume - tm.air_gap - xfer.disposal)
        /\ pc = "t_return" =>
               /\ SeqSum(DispensedAmounts) = xfer.requested
               /\ tubes[xfer.dst] - hist.dest_start = xfer.requested

\* a returned transfer of several cycles, with an air gap and a disposal volume
C8_Witness ==
    /\ pc = "t_return"
    /\ Len(hist.dispensed) >= 2
    /\ tm.air_gap > 0
    /\ xfer.disposal > 0

\* C9 (the claim as stated): for any setup, a transfer call that is over has
\* run ceil(volume / available) cycles and has no volume left to move.
C9_AnySetup ==
    pc \in {"t_return", "raised"} =>
        /\ xfer.volume = 0
        /\ Available # 0
        /\ Len(hist.dispensed) = Ceil(xfer.requested, Available)

\* C9 (amended): when pipette_max_volume - air_gap - disposal_volume is
\* positive the loop is a bounded sequence of cycles - every cycle moves a
\* positive volume, the remaining volume never goes below 0, no more than
\* ceil(volume / available) cycles run, and the loop ends after exactly that
\* many cycles with remaining volume 0; when nothing is available the call
\* raises before its first cycle.
C9_BoundedCycles ==
    /\ (pc \in TransferPcs \ {"t_entry"}) =>
          /\ Available > 0
          /\ \A k \in 1..Len(hist.dispensed) : hist.dispensed[k][2] > 0
          /\ xfer.volume = xfer.requested - SeqSum(DispensedAmounts)
          /\ xfer.volume >= 0
          /\ Len(hist.dispensed) <= Ceil(xfer.requested, Available)
          /\ pc \in {"t_check_mix", "t_final", "t_return"} =>
                 /\ xfer.volume = 0
                 /\ Len(hist.dispensed) = Ceil(xfer.requested, Available)
    /\ pc = "raised" => (Available = 0 /\ hist.dispensed = <<>>)

\* a transfer that needed two cycles of the p1000 while preparing a recipe
C9_Witness ==
    /\ pc = "t_return"
    /\ batch.kind = "prepare"
    /\ tm.pipette = 2
    /\ Len(hist.dispensed) = 2

\* C10 (the claim as stated): the volume held in a pipette, liquid plus air
\* gap, never exceeds its pipette_max_volume, the mixing step included.
C10_CapacityRespected ==
    \A p \in PipetteIds : pip[p].current_volume <= get_max_volume(p)

\* C11 (the claim as stated): volume ledgers stay within physical limits -
\* during a fill_wells / fill_shared_plate batch of executed and skipped
\* destinations, drawn from a source tube loaded with the batch total, the
\* tracked volume of the source never goes below 0.
C11_SourceNeverNegative ==
    (batch.kind = "fill" /\ AsFillWells) => tubes["tube"] >= 0

\* C12: the disposal volume is kept in the instrument - right after every
\* dispense of a transfer call (the air gap was dispensed before it, so the
\* held volume is liquid only) the pipette still holds at least
\* disposal_volume, with the batch total set to the sum of the destination
\* volumes or left unset.
C12_DisposalKept ==
    pc = "t_after" => pip[tm.pipette].current_volume >= xfer.disposal

\* the second destination of a batch served from carried-over liquid, the
\* pipette left with exactly the disposal volume
C12_Witness ==
    /\ pc = "t_after"
    /\ batch.kind = "fill"
    /\ batch.executed = 2
    /\ xfer.disposal > 0
    /\ hist.aspirated = 0
    /\ pip[tm.pipette].current_volume = xfer.disposal


\* C32 (the claim as stated): batch-total counter under resume - between the
\* destinations of a fill_wells / fill_shared_plate batch set up with the sum
\* of the destination volumes, executed or skipped, the engine's remaining
\* batch total is the sum of the volumes of the destinations not yet
\* processed.
C32_BatchTotalTracks ==
    (pc = "fill_loop" /\ AsFillWells) => tm.total = skip_ledger

\* C33: no oversized last refill - after the last destination of a batch
\* set up with the sum of its destination volumes and served with one tip, no
\* destination skipped, the instrument holds exactly disposal_volume of
\* liquid, and the source gave the sum of the destination volumes plus
\* disposal_volume.
C33_NoOversizedRefill ==
    (pc = "fill_loop" /\ AsFillWells /\ batch.i > Len(batch.vols) /\ batch.skipped = 0)
        => /\ pip[tm.pipette].current_volume - tm.air_gap = batch.disposal
           /\ batch.source_start - tubes["tube"] = SeqSum(batch.vols) + batch.disposal

\* two destinations served, the first in more than one cycle, with an air gap
\* and a disposal volume
C33_Witness ==
    /\ pc = "fill_loop"
    /\ AsFillWells
    /\ batch.i > Len(batch.vols)
    /\ batch.skipped = 0
    /\ batch.executed = 2
    /\ batch.vols[1] > Available
    /\ tm.air_gap > 0
    /\ batch.disposal > 0

\* C35 (the claim as stated): tip change happens once per transfer - when a
\* transfer call with change_tip requested returns, the pick callback has
\* been invoked exactly once, however many cycles the volume needed.
C35_OnePickPerCall ==
    (pc = "t_return" /\ xfer.change_tip /\ xfer.requested > 0) => hist.picks = 1
----------------------------------------------------------------------------
(* Claims about the tip callbacks and the per-batch options, checked under SpecCalls *)

\* the step is the entry of a transfer or mix call
CallEntered == batch'.executed # batch.executed

\* the calls of the pick callback made by the step
PicksNow ==
    IF CallEntered THEN hist'.picks
    ELSE IF pc # "idle" THEN hist'.picks - hist.picks ELSE 0

\* the calls of the drop callback made by the step
DropsNow ==
    IF CallEntered THEN hist'.drops
    ELSE IF pc # "idle" THEN hist'.drops - hist.drops ELSE 0

\* the step aspirates, dispenses or takes an air gap
LiquidNow ==
    \/ pc \in {"t_aspirate", "t_dispense", "m_aspirate", "m_dispense"}
    \/ /\ pc \in TransferPcs \cup MixPcs \cup {"x_final"}
       /\ pc # "t_loop"
       /\ pip'[tm.pipette].current_volume # pip[tm.pipette].current_volume

\* C36 (the claim as stated): in every sequence of transfer and mix calls
\* the pick callback is invoked only while no tip is held, the drop callback
\* only while a tip is held, and every aspirate, dispense and air gap happens
\* while a tip is held.
C36_TipCallbacks ==
    [][ /\ PicksNow > 0 => (~pip[tm.pipette].has_tip \/ DropsNow > 0)
        /\ DropsNow > 0 => pip[tm.pipette].has_tip
        /\ LiquidNow => pip[tm.pipette].has_tip
      ]_vars

\* the per-batch options of the engine
BatchOptions(t) == << t.mix_times, t.mix_volume, t.onto_beads >>

\* C37: after any setup_transfer call mixing and onto-beads dispensing are
\* disabled, whatever was set up before; a transfer mixes only if setup_mix
\* was called after the most recent setup_transfer; a transfer call leaves
\* the options unchanged.
C37_SetupResetsOptions ==
    [][ /\ batch'.kind = "setup_transfer" => BatchOptions(tm') = << 0, 0, FALSE >>
        /\ (batch'.kind = "transfer" /\ pc' \in MixPcs) => batch'.mix_set
        /\ (batch.kind = "transfer" /\ pc \in TransferPcs \cup MixPcs)
               => BatchOptions(tm') = BatchOptions(tm)
      ]_vars

\* setup_transfer has just been called after a transfer that mixed
C37_Witness ==
    /\ pc = "idle"
    /\ batch.kind = "setup_transfer"
    /\ batch.executed > 0
    /\ xfer.mix_ret = "t_final"
    /\ BatchOptions(tm) = << 0, 0, FALSE >>
----------------------------------------------------------------------------
(* Claims about the library station, checked under SpecLib *)

\* C3 (the claim as stated): after a distribute_clean / distribute_dirty
\* batch the tracked volume of the multi-tube source is the one it has when
\* every destination is skipped, whichever destinations were executed.
C3_SkipIndependence ==
    pc = "lib_done" => mts = mts_skip

----------------------------------------------------------------------------
(* Claims about PipetteChooser, checked under SpecChooser *)

\* entry i of the registry can hold the volume of the last get_pipette call
Qualifies(i) ==
    pipettes[i].max_volume
        - (IF chooser_last.consider_air_gap THEN pipettes[i].air_gap ELSE 0)
    >= chooser_last.volume

\* C13: selector monotonicity - for every registry, whatever the order of the
\* register calls, and every volume, get_pipette returns the instrument of
\* the entry with the smallest max_volume that can hold the volume (its
\* max_volume minus its air gap when consider_air_gap is set), or of a
\* largest-capacity entry when no entry can; the same call repeated on the
\* registry it leaves returns the same instrument.
C13_SelectorMonotonic ==
    chooser_last.op = "get_pipette" =>
        LET q == chooser_last.position
            all == 1..Len(pipettes)
        IN  /\ q \in all
            /\ chooser_last.pipette = pipettes[q].pipette
            /\ IF \E i \in all : Qualifies(i)
               THEN /\ Qualifies(q)
                    /\ \A i \in all :
                          Qualifies(i) =>
                              pipettes[q].max_volume <= pipettes[i].max_volume
               ELSE \A i \in all : pipettes[i].max_volume <= pipettes[q].max_volume
            /\ pipettes[select_pipette(pipettes, chooser_last.volume,
                                       chooser_last.consider_air_gap)].pipette
                   = chooser_last.pipette

\* the large instrument was registered before the small one, and a volume
\* the small one holds only without its air gap goes to the large one
C13_Witness ==
    /\ chooser_last.op = "get_pipette"
    /\ Len(pipettes) = 2
    /\ pipettes[1].call > pipettes[2].call
    /\ pipettes[1].max_volume < pipettes[2].max_volume
    /\ chooser_last.consider_air_gap
    /\ chooser_last.volume = 10
    /\ chooser_last.position = 2

\* C14 (the claim as stated): registration is stable for ties - entries of
\* equal max_volume stand in the registry in the order of their register
\* calls, and of two equal-capacity instruments get_pipette selects the one
\* registered first.
C14_StableTies ==
    /\ \A i, j \in 1..Len(pipettes) :
          (i < j /\ pipettes[i].max_volume = pipettes[j].max_volume)
              => pipettes[i].call < pipettes[j].call
    /\ chooser_last.op = "get_pipette" =>
          \A i \in 1..Len(pipettes) :
              pipettes[i].max_volume = pipettes[chooser_last.position].max_volume
                  => pipettes[chooser_last.position].call <= pipettes[i].call

\* C15: after any sequence of register calls, in any order of capacities,
\* the registry is sorted by ascending max_volume and holds one entry per
\* register call.
C15_SortedOnePerCall ==
    /\ \A i, j \in 1..Len(pipettes) :
          i < j => pipettes[i].max_volume <= pipettes[j].max_volume
    /\ Len(pipettes) = register_calls
    /\ { pipettes[i].call : i \in 1..Len(pipettes) } = 1..register_calls

\* three registrations, the largest capacity first and a tie among them
C15_Witness ==
    /\ register_calls = 3
    /\ chooser_last.op = "register"
    /\ pipettes[3].call = 1
    /\ pipettes[1].max_volume = pipettes[2].max_volume
    /\ pipettes[2].max_volume < pipettes[3].max_volume

\* the entries of an instrument
EntriesOf(registry, pipette) ==
    { i \in 1..Len(registry) : registry[i].pipette = pipette }

\* the air gap an instrument was registered with: the air_gap_volume given,
\* and 0.1 x max_volume when none was given
RegisteredAirGap(max_volume, given) ==
    IF given = None THEN max_volume \div AirGapDivisor ELSE given

\* C26 (the claim as stated): for a registered instrument get_max_volume
\* returns its max_volume, minus its air gap when consider_air_gap is set,
\* and get_air_gap returns its air gap, 0.1 x max_volume when none was
\* given; for an instrument never registered both raise
\* PipetteChooserException; a lookup leaves the registry unchanged.  The
\* values are compared for a lookup that follows the only registration of
\* the instrument.
C26_Lookups ==
    [][ chooser_last'.op \in {"get_max_volume", "get_air_gap"} =>
          /\ pipettes' = pipettes
          /\ EntriesOf(pipettes, chooser_last'.pipette) = {} =>
                chooser_last'.result = "PipetteChooserException"
          /\ EntriesOf(pipettes, chooser_last'.pipette) # {} =>
                chooser_last'.result = "ok"
          /\ ( /\ chooser_last.op = "register"
               /\ chooser_last.pipette = chooser_last'.pipette
               /\ Cardinality(EntriesOf(pipettes, chooser_last'.pipette)) = 1 ) =>
                LET air_gap == RegisteredAirGap(chooser_last.volume, chooser_last.given)
                IN  chooser_last'.value =
                        IF chooser_last'.op = "get_air_gap"
                        THEN air_gap
                        ELSE chooser_last.volume
                                - (IF chooser_last'.consider_air_gap
                                   THEN air_gap ELSE 0) ]_vars

----------------------------------------------------------------------------
(* Claims about the unstick timer, checked under SpecUnstick *)

\* the latest time stored for an instrument, on any of its entries
LastUsedOf(registry, pipette) ==
    LET times == { registry[i].last_used : i \in EntriesOf(registry, pipette) }
    IN  CHOOSE t \in times : \A u \in times : u <= t

\* C27: needs_unstick(p) is true exactly when the time elapsed since the
\* most recent register of p or get_pipette call that selected p is greater
\* than the unstick threshold - each such call sets p's last-used time to
\* the current time, needs_unstick itself changes nothing, and a call for
\* another instrument leaves p's last-used time as it was.
C27_UnstickTimer ==
    [][ now' = now =>
          LET p == chooser_last'.pipette
          IN  /\ chooser_last'.op \in {"register", "get_pipette"} =>
                    /\ EntriesOf(pipettes', p) # {}
                    /\ LastUsedOf(pipettes', p) = now
                    /\ \A q \in ChooserPipettes :
                          (q # p /\ EntriesOf(pipettes, q) # {}) =>
                              LastUsedOf(pipettes', q) = LastUsedOf(pipettes, q)
              /\ chooser_last'.op = "needs_unstick" =>
                    /\ pipettes' = pipettes
                    /\ EntriesOf(pipettes, p) # {} =>
                          /\ chooser_last'.result = "ok"
                          /\ chooser_last'.value = 1
                                <=> now - LastUsedOf(pipettes, p) > UnstickTime ]_vars

\* an instrument registered at time 0 needs unsticking at time 2, while the
\* other one, selected at time 2, holds that time
C27_Witness ==
    /\ chooser_last.op = "needs_unstick"
    /\ chooser_last.value = 1
    /\ now = 2
    /\ Len(pipettes) = 2
    /\ \E i, j \in 1..2 :
          /\ pipettes[i].pipette = chooser_last.pipette
          /\ pipettes[i].last_used = 0
          /\ pipettes[j].pipette # chooser_last.pipette
          /\ pipettes[j].last_used = 2
----------------------------------------------------------------------------
(* Claims about Recipe, checked under SpecRecipe *)

\* C16 (the claim as stated): volume_final round trip - after
\* `volume_final = x` with x <= total_prepared_vol the getter returns x, and
\* for x > total_prepared_vol the setter raises RecipeException.
C16_RoundTrip ==
    recipe_last.op = "set_volume_final" =>
        IF recipe_last.arg <= total_prepared_vol_of(recipe)
        THEN /\ recipe_last.result = "ok"
             /\ volume_final_get(recipe) =
                    [result |-> "ok", value |-> recipe_last.arg]
        ELSE recipe_last.result = "RecipeException"

\* C17: Recipe invariant - after construction and any sequence of add_steps
\* (steps of non-negative volume) and volume_final assignments, accepted or
\* rejected, the stored final volume is at most total_prepared_vol, and
\* total_prepared_vol is the sum of the volumes of every step ever added,
\* steps naming the same reagent each counted.
C17_RecipeInvariant ==
    recipe.constructed =>
        /\ recipe.vol <= total_prepared_vol_of(recipe)
        /\ total_prepared_vol_of(recipe) = SeqSum(recipe_hist.added)

\* steps were added twice, the second time the same step again, and an
\* assignment was rejected after one was accepted
C17_Witness ==
    /\ recipe.constructed
    /\ Len(recipe_hist.added) = 3
    /\ recipe_hist.added[2] = recipe_hist.added[3]
    /\ recipe.vol = 19
    /\ recipe_last.op = "set_volume_final"
    /\ recipe_last.result = "RecipeException"

\* the convex combination of total_prepared_vol and the stored final volume,
\* in 1/HeadroomScale ul
ConvexCombination ==
    (HeadroomScale - recipe.headroom_fraction) * SeqSum(recipe.steps)
        + recipe.headroom_fraction * recipe.vol

C19_HeadroomInRange ==
    recipe.constructed =>
        (0 <= recipe.headroom_fraction /\ recipe.headroom_fraction <= HeadroomScale)

\* C20: a rejected volume_final assignment leaves the stored final volume
\* unchanged - the getter raises afterwards if it raised before, and returns
\* the earlier value if it returned one.
C20_RejectedKeeps ==
    [][ ( /\ recipe_last'.op = "set_volume_final"
          /\ recipe_last'.result = "RecipeException" )
        => ( /\ recipe'.vol = recipe.vol
             /\ volume_final_get(recipe') = volume_final_get(recipe) ) ]_vars

\* an assignment of 30 was rejected after 8 had been accepted
C20_Witness ==
    /\ recipe_last.op = "set_volume_final"
    /\ recipe_last.result = "RecipeException"
    /\ recipe_last.arg = 30
    /\ recipe.vol = 8
    /\ volume_final_get(recipe) = [result |-> "ok", value |-> 8]
----------------------------------------------------------------------------
(* Claims about the plate trackers and the shaker of the library station *)

\* the step is a call of the library station
ProtoCalled == proto_last'.call # proto_last.call

\* the tracker of the manager is Unloaded
Unloaded(slots, manager) == slots[manager] = None

\* C28: a PlateManager is Unloaded before any call and after every pick of
\* its plate, and reading its slot then fails; after a drop in slot S or an
\* internal transfer to slot S it is at S, reading returns S, and nothing
\* but a pick, a drop or an internal transfer of that manager moves it; a
\* pick while Unloaded fails with no robot request issued.
C28_PlateTracker ==
    [][ /\ (proto_last.op = "none" => \A m \in PlateManagers : Unloaded(plate_slot, m))
        /\ ProtoCalled =>
             LET m == proto_last'.manager
                 op == proto_last'.op
             IN  /\ (op = "pick" /\ proto_last'.result = "ok")
                        => Unloaded(plate_slot', m)
                 /\ (op = "pick" /\ Unloaded(plate_slot, m))
                        => /\ proto_last'.result = "Exception"
                           /\ proto_last'.requests = 0
                           /\ plate_slot' = plate_slot
                 /\ (op = "current_slot")
                        => IF Unloaded(plate_slot, m)
                           THEN proto_last'.result = "Exception"
                           ELSE /\ proto_last'.result = "ok"
                                /\ proto_last'.value = plate_slot[m]
                 /\ (op \in {"drop", "transfer"} /\ proto_last'.result = "ok")
                        => plate_slot'[m] = proto_last'.slot
                 /\ \A o \in PlateManagers :
                        plate_slot'[o] # plate_slot[o]
                            => o = m /\ op \in {"pick", "drop", "transfer"}
        /\ ~ProtoCalled => plate_slot' = plate_slot
      ]_vars

\* a pick of the sample plate has just failed while the reagent plate, dropped
\* earlier, sits on the thermocycler
C28_Witness ==
    /\ proto_last.op = "pick"
    /\ proto_last.manager = "sample"
    /\ proto_last.result = "Exception"
    /\ proto_last.requests = 0
    /\ plate_slot["sample"] = None
    /\ plate_slot["reagent"] = TcSlot

\* C29: in a running stage shake_wait_for_finish fails exactly when no
\* non-blocking shake was started since the last completed wait: never
\* started, only blocking shakes run, or waited for already.
C29_WaitNeedsStart ==
    [][ (ProtoCalled /\ proto_last'.op = "shake_wait_for_finish" /\ run_stage)
            => IF shake_hist.started
               THEN proto_last'.result = "ok"
               ELSE proto_last'.result = "Exception"
      ]_vars

\* a second wait after one start and one completed wait has just failed,
\* blocking shakes having been run as well
C29_Witness ==
    /\ proto_last.op = "shake_wait_for_finish"
    /\ proto_last.result = "Exception"
    /\ shake_hist.waited
    /\ shake_hist.blocking
    /\ ~shake_hist.started
    /\ run_stage

\* C30: the delay shake_wait_for_finish requests is the requested seconds
\* less the time elapsed since the non-blocking shake started, and is never
\* negative.
C30_RemainingDelay ==
    [][ (ProtoCalled /\ proto_last'.op = "shake_wait_for_finish"
                     /\ proto_last'.result = "ok")
            => /\ proto_last'.delayed
               /\ proto_last'.delay =
                      hs_timer.requested_seconds - (now - hs_timer.start_time)
               /\ proto_last'.delay >= 0
      ]_vars


\* C38: when a non-blocking shake was reached in a skipped stage and the run
\* became active before the matching shake_wait_for_finish, the wait does not
\* fail for lack of a recorded start.
C38_ResumeBeforeJoin ==
    [][ (ProtoCalled /\ proto_last'.op = "shake_wait_for_finish"
                     /\ run_stage /\ shake_hist.skipped)
            => proto_last'.result # "Exception"
      ]_vars

----------------------------------------------------------------------------
(* Claims about the trackers over the protocol body *)

\* the call the body makes in this step
BodyCall == body[body_pc]

\* the body makes a call in this step
BodyCalled == body_pc \in 1..Len(body) /\ body_pc' # body_pc

\* the trackers record two different slots, or one of them records none
SlotsApart ==
    \/ plate_slot["reagent"] = None
    \/ plate_slot["sample"] = None
    \/ plate_slot["reagent"] # plate_slot["sample"]

----------------------------------------------------------------------------
(* Claims about the vertical mapper *)

\* the samples fit 8 to a column on the labware
Mappable(shape, n) ==
    /\ shape.column_length >= ColumnHeight
    /\ Ceil(n, ColumnHeight) <= shape.row_length

\* the k-th well (from 1) of n samples: 8 to a column, from the centred rows of
\* the centred columns
CentredWell(shape, n, k) ==
    << ((shape.row_length - Ceil(n, ColumnHeight)) \div 2) + ((k - 1) \div ColumnHeight),
          ((shape.column_length - ColumnHeight) \div 2) + ((k - 1) % ColumnHeight) >>

\* the wells returned for n samples that fit are the n centred wells
MappedCentred ==
    LET n == vm_last.num_samples
    IN  /\ vm_last.result = "ok"
        /\ Len(vm_last.wells) = n
        /\ \A k \in 1..n : vm_last.wells[k] = CentredWell(vm, n, k)
        /\ \A k, l \in 1..n : k # l => vm_last.wells[k] # vm_last.wells[l]

\* C31: get_map_for_samples(n) returns n distinct wells, 8 per column, from
\* the vertically centred 8 rows of ceil(n/8) horizontally centred columns,
\* and raises an error when the n samples cannot be mapped onto the labware.
C31_VerticalMap ==
    vm_last.result # "none" =>
        IF Mappable(vm, vm_last.num_samples)
        THEN MappedCentred
        ELSE vm_last.result = "VerticalMapperException"

============================================================================
